---- MODULE Spec2Model ----
(***************************************************************************)
(* Register analysis of the Verible MCP server (src/src/tools/analyze.ts). *)
(*                                                                         *)
(* The tool runs `verible-verilog-syntax --printtree` on each file, reads  *)
(* the indentation-based tree dump back into a tree (parseTreeStructure),  *)
(* walks it for module, data and port declarations, classifies every      *)
(* declared reg/logic by the always blocks that assign it, and merges the  *)
(* per-file results (processResult).                                       *)
(*                                                                         *)
(* Four state machines share the definitions of the module:                *)
(*   SpecParse    parseTreeStructure, one loop iteration per step, on      *)
(*                arbitrary lines;                                         *)
(*   SpecDecl     parseDataDeclaration / parsePortDeclaration on one       *)
(*                declaration subtree;                                     *)
(*   Spec         processResult on a batch of files, one file per step;    *)
(*   SpecExtract  processResult with the extraction of a file taken one    *)
(*                module, one always block and one register at a time.     *)
(*                                                                         *)
(* Objects live in an arena: `nodes` is the sequence of SyntaxNode and     *)
(* SyntaxLeaf objects in creation order and a reference is an index into   *)
(* it (0 is null).  A text is a sequence of one-character strings.         *)
(***************************************************************************)
EXTENDS Integers, Sequences, FiniteSets, TLC

VARIABLES
    pc,            \* position of the running operation
    output,        \* parseTreeStructure: the lines of the tool's output
    li,            \* parseTreeStructure: number of lines the loop has taken
    stack,         \* parseTreeStructure: stack of open SyntaxNode references
    root,          \* parseTreeStructure: root reference, 0 = null
    nodes,         \* parseTreeStructure: the objects created so far
    files,         \* processResult: the files to analyse
    analysisType,  \* processResult: params.analysis_type
    fi,            \* processResult: index of the next file of the loop
    allRegisters,  \* processResult: the registers of the files analysed so far
    allModules,    \* processResult: the modules of the files analysed so far
    result,        \* processResult: the returned ToolResult
    modNodes,      \* analyzeFile: moduleNodes, the module declarations of the tree
    mi,            \* analyzeFile: index of the next module of the loop
    fileRegisters, \* analyzeFile: registers, of the modules taken so far
    fileModules,   \* analyzeFile: modules, the summaries of the modules taken so far
    potentialRegisters,  \* extractRegistersFromModule: the module's candidates
    blockNodes,    \* extractRegistersFromModule: alwaysBlocks of the module
    bi,            \* refineRegisters: index of the next block of the first loop
    clockedSignals,  \* refineRegisters: names assigned in clocked blocks
    latchSignals,  \* refineRegisters: names assigned in the other blocks
    ri,            \* refineRegisters: index of the next register of the second loop
    disk,          \* the file system: the content of each file
    cache,         \* CacheManager.cache: the entries by key
    fileHashes,    \* CacheManager.fileHashes: the last hash set for a dependency
    getCall,       \* the frame of the get in flight
    setCall        \* the frame of the set in flight

extractVars == <<modNodes, mi, fileRegisters, fileModules, potentialRegisters, blockNodes, bi,
                 clockedSignals, latchSignals, ri>>

cacheVars == <<disk, cache, fileHashes, getCall, setCall>>

analyzeVars == <<pc, output, li, stack, root, nodes, files, analysisType, fi, allRegisters,
                 allModules, result, extractVars>>

vars == <<pc, output, li, stack, root, nodes, files, analysisType, fi, allRegisters,
          allModules, result, extractVars, cacheVars>>

(***************************************************************************)
(* Bounds of the model.                                                    *)
(***************************************************************************)
MaxLines == 4      \* lines of a dump in SpecParse
MaxBlocks == 2     \* always blocks of a module in Spec
MaxFiles == 2      \* files of a batch in Spec
MaxNum == 31       \* largest bound of a packed dimension in SpecDecl
MaxContent == 1    \* contents a file takes in SpecCache: 0 .. MaxContent

(***************************************************************************)
(* Generic helpers.                                                        *)
(***************************************************************************)
Last(s) == s[Len(s)]

Front(s) == SubSeq(s, 1, Len(s) - 1)

NULL == 0

(***************************************************************************)
(* Lines of the tool's output.  A line is described by what the two        *)
(* regular expressions of parseTreeStructure look at: the length of its    *)
(* leading whitespace run, whether "Node @n (tag: " or "Leaf @n (#"        *)
(* follows, the tag, and for a leaf the byte span and the quoted text.     *)
(***************************************************************************)
NodeLine(ws, tag) ==
    [ws |-> ws, head |-> "Node", tag |-> tag, start |-> 0, end |-> 0, text |-> <<>>]

LeafLine(ws, tag, start, end, text) ==
    [ws |-> ws, head |-> "Leaf", tag |-> tag, start |-> start, end |-> end, text |-> text]

OtherLine ==
    [ws |-> 0, head |-> "Other", tag |-> "", start |-> 0, end |-> 0, text |-> <<>>]

\* Tags the dump prints for punctuation and operator tokens: #';' #'[' #"<=" ...
\* None of them is matched by (\w+) after an optional double quote.
NonWordTags == {"';'", "'['", "']'", "':'", "'('", "')'", "'='", "'@'", "\"<=\"", "'-'", "','"}

IsWord(tag) == tag # "" /\ tag \notin NonWordTags

HasQuote(text) == \E i \in 1..Len(text) : text[i] = "\""

\* line.match(/^(\s*)Node @\d+ \(tag: (\w+)\)/)
nodeMatch(line) == line.head = "Node" /\ IsWord(line.tag)

\* line.match(/^(\s*)Leaf @\d+ \(#"?(\w+)"? @(\d+)-(\d+): "([^"]*)"\)/)
leafMatch(line) == line.head = "Leaf" /\ IsWord(line.tag) /\ ~HasQuote(line.text)

(***************************************************************************)
(* parseTreeStructure: the body of the loop over the lines.  The loop      *)
(* itself is the action that takes one line per step.                      *)
(***************************************************************************)
SyntaxNode(tag) ==
    [isNode |-> TRUE, tag |-> tag, children |-> <<>>, text |-> <<>>, start |-> 0, end |-> 0]

SyntaxLeaf(tag, start, end, text) ==
    [isNode |-> FALSE, tag |-> tag, children |-> <<>>, text |-> text, start |-> start, end |-> end]

\* while (stack.length > indent) stack.pop(), with indent = whitespace length / 2
\* (a JavaScript division: 3 spaces give 1.5)
\* Pops until the stack is exactly as long as the level, which PopWhile must
\* differ from on a line deeper than the stack.
RECURSIVE PopWhileExact(_, _)
PopWhileExact(stk, ws) ==
    IF stk # <<>> /\ 2 * Len(stk) # ws THEN PopWhileExact(Front(stk), ws) ELSE stk

RECURSIVE PopWhile(_, _)
PopWhile(stk, ws) ==
    IF 2 * Len(stk) > ws THEN PopWhile(Front(stk), ws) ELSE stk

\* A push at the front of the children, which PushChild must differ from.
PushChildFirst(arena, parent, child) ==
    [arena EXCEPT ![parent].children = <<child>> \o @]

\* parent.children.push(child)
PushChild(arena, parent, child) ==
    [arena EXCEPT ![parent].children = Append(@, child)]

\* An iteration that takes a node line for the root only when the line is not
\* indented, which ParseStep must differ from.
ParseStepTopLevelRoot(st, line) ==
    LET id == Len(st.nodes) + 1
        stk == PopWhile(st.stack, line.ws)
    IN  IF nodeMatch(line) THEN
            IF Len(stk) = 0
            THEN [stack |-> <<id>>, root |-> IF line.ws = 0 THEN id ELSE st.root,
                  nodes |-> Append(st.nodes, SyntaxNode(line.tag))]
            ELSE [stack |-> Append(stk, id), root |-> st.root,
                  nodes |-> Append(PushChild(st.nodes, Last(stk), id), SyntaxNode(line.tag))]
        ELSE IF leafMatch(line) THEN
            IF Len(stk) > 0
            THEN [stack |-> stk, root |-> st.root,
                  nodes |-> Append(PushChild(st.nodes, Last(stk), id),
                                   SyntaxLeaf(line.tag, line.start, line.end, line.text))]
            ELSE [stack |-> stk, root |-> st.root,
                  nodes |-> Append(st.nodes, SyntaxLeaf(line.tag, line.start, line.end, line.text))]
        ELSE st

\* One iteration on `line`, from the state st = [stack, root, nodes].
\* Pushes a leaf as it pushes a node, which ParseStep must never do.
ParseStepLeafPushed(st, line) ==
    LET id == Len(st.nodes) + 1
        stk == PopWhile(st.stack, line.ws)
    IN  IF nodeMatch(line) THEN
            IF Len(stk) = 0
            THEN [stack |-> <<id>>, root |-> id,
                  nodes |-> Append(st.nodes, SyntaxNode(line.tag))]
            ELSE [stack |-> Append(stk, id), root |-> st.root,
                  nodes |-> Append(PushChild(st.nodes, Last(stk), id), SyntaxNode(line.tag))]
        ELSE IF leafMatch(line) THEN
            IF Len(stk) > 0
            THEN [stack |-> Append(stk, id), root |-> st.root,
                  nodes |-> Append(PushChild(st.nodes, Last(stk), id),
                                   SyntaxLeaf(line.tag, line.start, line.end, line.text))]
            ELSE [stack |-> stk, root |-> st.root,
                  nodes |-> Append(st.nodes, SyntaxLeaf(line.tag, line.start, line.end, line.text))]
        ELSE st

\* Pops the stack down to the indentation of a line no pattern matches, which
\* ParseStep must leave as it is.
ParseStepOtherResets(st, line) ==
    LET id == Len(st.nodes) + 1
        stk == PopWhile(st.stack, line.ws)
    IN  IF nodeMatch(line) THEN
            IF Len(stk) = 0
            THEN [stack |-> <<id>>, root |-> id,
                  nodes |-> Append(st.nodes, SyntaxNode(line.tag))]
            ELSE [stack |-> Append(stk, id), root |-> st.root,
                  nodes |-> Append(PushChild(st.nodes, Last(stk), id), SyntaxNode(line.tag))]
        ELSE IF leafMatch(line) THEN
            IF Len(stk) > 0
            THEN [stack |-> stk, root |-> st.root,
                  nodes |-> Append(PushChild(st.nodes, Last(stk), id),
                                   SyntaxLeaf(line.tag, line.start, line.end, line.text))]
            ELSE [stack |-> stk, root |-> st.root,
                  nodes |-> Append(st.nodes, SyntaxLeaf(line.tag, line.start, line.end, line.text))]
        ELSE [st EXCEPT !.stack = stk]

\* Pushes the new node on the stack as it was before the pops, which
\* ParseStep must not do after a pop.
ParseStepStalePush(st, line) ==
    LET id == Len(st.nodes) + 1
        stk == PopWhile(st.stack, line.ws)
    IN  IF nodeMatch(line) THEN
            IF Len(stk) = 0
            THEN [stack |-> <<id>>, root |-> id,
                  nodes |-> Append(st.nodes, SyntaxNode(line.tag))]
            ELSE [stack |-> Append(st.stack, id), root |-> st.root,
                  nodes |-> Append(PushChild(st.nodes, Last(stk), id), SyntaxNode(line.tag))]
        ELSE IF leafMatch(line) THEN
            IF Len(stk) > 0
            THEN [stack |-> stk, root |-> st.root,
                  nodes |-> Append(PushChild(st.nodes, Last(stk), id),
                                   SyntaxLeaf(line.tag, line.start, line.end, line.text))]
            ELSE [stack |-> stk, root |-> st.root,
                  nodes |-> Append(st.nodes, SyntaxLeaf(line.tag, line.start, line.end, line.text))]
        ELSE st

\* Keeps the first root, which ParseStep must not do for a later node line
\* that finds the stack empty.
ParseStepFirstRoot(st, line) ==
    LET id == Len(st.nodes) + 1
        stk == PopWhile(st.stack, line.ws)
    IN  IF nodeMatch(line) THEN
            IF Len(stk) = 0
            THEN [stack |-> <<id>>, root |-> IF st.root = NULL THEN id ELSE st.root,
                  nodes |-> Append(st.nodes, SyntaxNode(line.tag))]
            ELSE [stack |-> Append(stk, id), root |-> st.root,
                  nodes |-> Append(PushChild(st.nodes, Last(stk), id), SyntaxNode(line.tag))]
        ELSE IF leafMatch(line) THEN
            IF Len(stk) > 0
            THEN [stack |-> stk, root |-> st.root,
                  nodes |-> Append(PushChild(st.nodes, Last(stk), id),
                                   SyntaxLeaf(line.tag, line.start, line.end, line.text))]
            ELSE [stack |-> stk, root |-> st.root,
                  nodes |-> Append(st.nodes, SyntaxLeaf(line.tag, line.start, line.end, line.text))]
        ELSE st

ParseStep(st, line) ==
    LET id == Len(st.nodes) + 1
        stk == PopWhile(st.stack, line.ws)
    IN  IF nodeMatch(line) THEN
            IF Len(stk) = 0
            THEN [stack |-> <<id>>, root |-> id,
                  nodes |-> Append(st.nodes, SyntaxNode(line.tag))]
            ELSE [stack |-> Append(stk, id), root |-> st.root,
                  nodes |-> Append(PushChild(st.nodes, Last(stk), id), SyntaxNode(line.tag))]
        ELSE IF leafMatch(line) THEN
            IF Len(stk) > 0
            THEN [stack |-> stk, root |-> st.root,
                  nodes |-> Append(PushChild(st.nodes, Last(stk), id),
                                   SyntaxLeaf(line.tag, line.start, line.end, line.text))]
            ELSE [stack |-> stk, root |-> st.root,
                  nodes |-> Append(st.nodes, SyntaxLeaf(line.tag, line.start, line.end, line.text))]
        ELSE st

(***************************************************************************)
(* Tree query layer.  T is the arena, n a reference into it.               *)
(***************************************************************************)
RECURSIVE findNodesByTag(_, _, _)
RECURSIVE findNodesInChildren(_, _, _)
\* Takes every object that carries the tag, which findNodesByTag must not do
\* for a leaf.
findNodesByTagOfAnyKind(T, n, tag) ==
    (IF T[n].tag = tag THEN <<n>> ELSE <<>>)
        \o (IF T[n].isNode THEN findNodesInChildren(T, T[n].children, tag) ELSE <<>>)

findNodesByTag(T, n, tag) ==
    (IF T[n].tag = tag /\ T[n].isNode THEN <<n>> ELSE <<>>)
        \o (IF T[n].isNode THEN findNodesInChildren(T, T[n].children, tag) ELSE <<>>)

\* for (const child of node.children) results.push(...findNodesByTag(child, tag))
findNodesInChildren(T, ch, tag) ==
    IF ch = <<>> THEN <<>>
    ELSE findNodesByTag(T, Head(ch), tag) \o findNodesInChildren(T, Tail(ch), tag)

RECURSIVE findFirstNodeByTag(_, _, _)
RECURSIVE findFirstInChildren(_, _, _)
findFirstNodeByTag(T, n, tag) ==
    IF T[n].tag = tag /\ T[n].isNode THEN n
    ELSE IF T[n].isNode THEN findFirstInChildren(T, T[n].children, tag)
    ELSE NULL

\* for (const child of node.children) { found = ...; if (found) return found; }
findFirstInChildren(T, ch, tag) ==
    IF ch = <<>> THEN NULL
    ELSE LET found == findFirstNodeByTag(T, Head(ch), tag)
         IN  IF found # NULL THEN found ELSE findFirstInChildren(T, Tail(ch), tag)

RECURSIVE getAllLeaves(_, _)
RECURSIVE getLeavesOfChildren(_, _)
\* Takes every object without children for a leaf, which getAllLeaves must
\* not do for an interior node.
getAllLeavesChildless(T, n) ==
    (IF T[n].children = <<>> THEN <<n>> ELSE <<>>)
        \o (IF T[n].isNode THEN getLeavesOfChildren(T, T[n].children) ELSE <<>>)

getAllLeaves(T, n) ==
    (IF ~T[n].isNode THEN <<n>> ELSE <<>>)
        \o (IF T[n].isNode THEN getLeavesOfChildren(T, T[n].children) ELSE <<>>)

getLeavesOfChildren(T, ch) ==
    IF ch = <<>> THEN <<>>
    ELSE getAllLeaves(T, Head(ch)) \o getLeavesOfChildren(T, Tail(ch))

(***************************************************************************)
(* JavaScript numbers: a finite integer, NaN or an infinity.  The model    *)
(* computes finite values exactly; its inputs keep them far below 2^53.    *)
(***************************************************************************)
Num(n) == [cls |-> "num", v |-> n]

NaN == [cls |-> "NaN", v |-> 0]

Infinity == [cls |-> "Infinity", v |-> 0]

NegInfinity == [cls |-> "-Infinity", v |-> 0]

isNaN(a) == a.cls = "NaN"

JsNeg(a) ==
    CASE a.cls = "num" -> Num(0 - a.v)
      [] a.cls = "Infinity" -> NegInfinity
      [] a.cls = "-Infinity" -> Infinity
      [] OTHER -> NaN

JsAdd(a, b) ==
    CASE a.cls = "NaN" \/ b.cls = "NaN" -> NaN
      [] a.cls = "num" /\ b.cls = "num" -> Num(a.v + b.v)
      [] a.cls = "num" -> b
      [] b.cls = "num" -> a
      [] a.cls = b.cls -> a
      [] OTHER -> NaN

JsSub(a, b) == JsAdd(a, JsNeg(b))

\* Math.abs
JsAbs(a) ==
    CASE a.cls = "num" -> Num(IF a.v < 0 THEN 0 - a.v ELSE a.v)
      [] a.cls = "NaN" -> NaN
      [] OTHER -> Infinity

\* a >= n for an integer n
JsGe(a, n) ==
    CASE a.cls = "num" -> a.v >= n
      [] a.cls = "Infinity" -> TRUE
      [] OTHER -> FALSE

(***************************************************************************)
(* parseInt(text), no radix given (ECMAScript 19.2.5): leading white space *)
(* is skipped, a sign is read, "0x" selects radix 16, the longest prefix   *)
(* of digits is the value and NaN is the result when there is none.  A     *)
(* value of 2^1024 or more is Infinity.                                    *)
(***************************************************************************)
DecDigits == <<"0", "1", "2", "3", "4", "5", "6", "7", "8", "9">>

HexLetters == <<"a", "b", "c", "d", "e", "f">>

HexCapitals == <<"A", "B", "C", "D", "E", "F">>

DigitValue(c) ==
    IF \E i \in 1..10 : DecDigits[i] = c
    THEN (CHOOSE i \in 1..10 : DecDigits[i] = c) - 1
    ELSE (CHOOSE i \in 1..6 : HexLetters[i] = c \/ HexCapitals[i] = c) + 9

\* The position of the first character of text that is not in chars,
\* Len(text) + 1 when there is none.
FirstOutside(text, chars) ==
    LET outside == {i \in 1..Len(text) : text[i] \notin chars}
    IN  IF outside = {} THEN Len(text) + 1
        ELSE CHOOSE i \in outside : \A j \in outside : i <= j

DigitChars(radix) ==
    {DecDigits[i] : i \in 1..10}
        \cup (IF radix = 16 THEN {HexLetters[i] : i \in 1..6} \cup {HexCapitals[i] : i \in 1..6}
              ELSE {})

SkipWhite(text) == SubSeq(text, FirstOutside(text, {" ", "\t", "\n"}), Len(text))

DigitPrefix(text, radix) == SubSeq(text, 1, FirstOutside(text, DigitChars(radix)) - 1)

SkipZeros(digits) == SubSeq(digits, FirstOutside(digits, {"0"}), Len(digits))

RECURSIVE DigitsValue(_, _, _)
DigitsValue(digits, radix, acc) ==
    IF digits = <<>> THEN acc
    ELSE DigitsValue(Tail(digits), radix, acc * radix + DigitValue(Head(digits)))

\* The least number of significant decimal (hexadecimal) digits from which
\* every value is 2^1024 or more, which a double holds as Infinity.
DoubleDecDigits == 310

DoubleHexDigits == 257

parseInt(text) ==
    LET Magnitude(significant, radix, limit) ==
            IF Len(significant) >= limit THEN Infinity
            ELSE Num(DigitsValue(significant, radix, 0))
        Value(digits, radix, limit) ==
            IF digits = <<>> THEN NaN ELSE Magnitude(SkipZeros(digits), radix, limit)
        Unsigned(s1) ==
            IF Len(s1) >= 2 /\ s1[1] = "0" /\ s1[2] \in {"x", "X"}
            THEN Value(DigitPrefix(Tail(Tail(s1)), 16), 16, DoubleHexDigits)
            ELSE Value(DigitPrefix(s1, 10), 10, DoubleDecDigits)
        Signed(s0) ==
            IF s0 # <<>> /\ Head(s0) = "-" THEN JsNeg(Unsigned(Tail(s0)))
            ELSE IF s0 # <<>> /\ Head(s0) = "+" THEN Unsigned(Tail(s0))
            ELSE Unsigned(s0)
    IN  Signed(SkipWhite(text))

(***************************************************************************)
(* Token texts the extractor compares with.                                *)
(***************************************************************************)
kw_module == <<"m", "o", "d", "u", "l", "e">>

kw_wire == <<"w", "i", "r", "e">>

kw_reg == <<"r", "e", "g">>

kw_logic == <<"l", "o", "g", "i", "c">>

kw_input == <<"i", "n", "p", "u", "t">>

kw_output == <<"o", "u", "t", "p", "u", "t">>

kw_inout == <<"i", "n", "o", "u", "t">>

kw_posedge == <<"p", "o", "s", "e", "d", "g", "e">>

kw_negedge == <<"n", "e", "g", "e", "d", "g", "e">>

\* The tags of the dump's alphabet that start with "TK_".
TKTags == {"TK_DecNumber", "TK_HexBase", "TK_HexDigits", "TK_UnBasedNumber"}

\* leaf.tag && leaf.tag.startsWith('TK_')
StartsWithTK(tag) == tag \in TKTags

(***************************************************************************)
(* Line numbers: the newlines among the first byteOffset characters.       *)
(***************************************************************************)
\* line = 1, plus one for every newline at an index below byteOffset and
\* below content.length
getLineNumber(content, byteOffset) ==
    LET limit == IF byteOffset < Len(content) THEN byteOffset ELSE Len(content)
    IN  1 + Cardinality({i \in 1..limit : content[i] = "\n"})

getLineNumberFromNode(T, n, content) ==
    LET leaves == getAllLeaves(T, n)
    IN  IF Len(leaves) > 0 THEN getLineNumber(content, T[leaves[1]].start) ELSE 1

(***************************************************************************)
(* Declaration extractor.                                                  *)
(***************************************************************************)
RegisterInfo(name, width, line) ==
    [name |-> name, type |-> "potential_register", width |-> width, line |-> line,
     file |-> "", module |-> <<>>]

\* The width without Math.abs, which parsePackedDimensions must differ from
\* when LSB is the larger bound.
parsePackedDimensionsSigned(T, dimNode) ==
    LET Width(msb, lsb) ==
            IF ~isNaN(msb) /\ ~isNaN(lsb)
            THEN JsAdd(JsSub(msb, lsb), Num(1))
            ELSE Num(1)
        leaves == getAllLeaves(T, dimNode)
        numbers == SelectSeq(leaves, LAMBDA l : StartsWithTK(T[l].tag))
    IN  IF Len(numbers) >= 2
        THEN Width(parseInt(T[numbers[1]].text), parseInt(T[numbers[2]].text))
        ELSE Num(1)

parsePackedDimensions(T, dimNode) ==
    LET Width(msb, lsb) ==
            IF ~isNaN(msb) /\ ~isNaN(lsb)
            THEN JsAdd(JsAbs(JsSub(msb, lsb)), Num(1))
            ELSE Num(1)
        leaves == getAllLeaves(T, dimNode)
        numbers == SelectSeq(leaves, LAMBDA l : StartsWithTK(T[l].tag))
    IN  IF Len(numbers) >= 2
        THEN Width(parseInt(T[numbers[1]].text), parseInt(T[numbers[2]].text))
        ELSE Num(1)

\* The first (data declaration) or last (port declaration) of wire, reg and
\* logic among the leaves' texts; wire when there is none.
\* Takes the last of the type keywords, which FirstType must differ from on
\* a declaration with two of them.
RECURSIVE FirstTypeFromEnd(_, _)
FirstTypeFromEnd(T, leaves) ==
    IF leaves = <<>> THEN kw_wire
    ELSE IF T[Last(leaves)].text \in {kw_wire, kw_reg, kw_logic} THEN T[Last(leaves)].text
    ELSE FirstTypeFromEnd(T, Front(leaves))

RECURSIVE FirstType(_, _)
FirstType(T, leaves) ==
    IF leaves = <<>> THEN kw_wire
    ELSE IF T[Head(leaves)].text \in {kw_wire, kw_reg, kw_logic} THEN T[Head(leaves)].text
    ELSE FirstType(T, Tail(leaves))

RECURSIVE LastType(_, _, _)
LastType(T, leaves, type) ==
    IF leaves = <<>> THEN type
    ELSE LastType(T, Tail(leaves),
                  IF T[Head(leaves)].text \in {kw_wire, kw_reg, kw_logic}
                  THEN T[Head(leaves)].text ELSE type)

\* width = 1, replaced by parsePackedDimensions when the subtree has a
\* kPackedDimensions node
DeclaredWidth(T, decl) ==
    LET packedDimNode == findFirstNodeByTag(T, decl, "kPackedDimensions")
    IN  IF packedDimNode # NULL THEN parsePackedDimensions(T, packedDimNode) ELSE Num(1)

\* One RegisterInfo per kRegisterVariable with a SymbolIdentifier leaf.
RECURSIVE RegisterVariables(_, _, _, _)
RegisterVariables(T, regVarNodes, width, content) ==
    IF regVarNodes = <<>> THEN <<>>
    ELSE LET regLeaves == getAllLeaves(T, Head(regVarNodes))
             named == SelectSeq(regLeaves, LAMBDA l : T[l].tag = "SymbolIdentifier")
             rest == RegisterVariables(T, Tail(regVarNodes), width, content)
         IN  IF named # <<>>
             THEN <<RegisterInfo(T[named[1]].text, width,
                                 getLineNumber(content, T[named[1]].start))>> \o rest
             ELSE rest

parseDataDeclaration(T, dataDecl, content) ==
    LET leaves == getAllLeaves(T, dataDecl)
        type == FirstType(T, leaves)
    IN  IF type # kw_reg /\ type # kw_logic THEN <<>>
        ELSE RegisterVariables(T, findNodesByTag(T, dataDecl, "kRegisterVariable"),
                               DeclaredWidth(T, dataDecl), content)

RECURSIVE PortRegisters(_, _, _, _)
PortRegisters(T, portNames, width, content) ==
    IF portNames = <<>> THEN <<>>
    ELSE <<RegisterInfo(T[Head(portNames)].text, width,
                        getLineNumber(content, T[Head(portNames)].start))>>
             \o PortRegisters(T, Tail(portNames), width, content)

parsePortDeclaration(T, portDecl, content) ==
    LET leaves == getAllLeaves(T, portDecl)
        isOutput == \E i \in 1..Len(leaves) : T[leaves[i]].text = kw_output
        type == LastType(T, leaves, kw_wire)
        portNames == SelectSeq(leaves, LAMBDA l :
                        /\ T[l].tag = "SymbolIdentifier"
                        /\ T[l].text \notin {kw_input, kw_output, kw_inout,
                                             kw_wire, kw_reg, kw_logic})
    IN  IF ~isOutput \/ (type # kw_reg /\ type # kw_logic) THEN <<>>
        ELSE PortRegisters(T, portNames, DeclaredWidth(T, portDecl), content)

getModuleName(T, moduleNode) ==
    LET moduleHeader == findFirstNodeByTag(T, moduleNode, "kModuleHeader")
        named == IF moduleHeader = NULL THEN <<>>
                 ELSE SelectSeq(getAllLeaves(T, moduleHeader), LAMBDA l :
                          T[l].tag = "SymbolIdentifier" /\ T[l].text # kw_module)
    IN  IF named = <<>> THEN <<>> ELSE T[named[1]].text

(***************************************************************************)
(* Procedural-block classifier.                                            *)
(***************************************************************************)
\* The first SymbolIdentifier leaf under the first kLPValue of each
\* assignment node, in the order of the three tag searches.
\* Takes every identifier of the left-hand side, which AssignmentTargets must
\* not do for s[r].
RECURSIVE AssignmentTargetsAll(_, _)
AssignmentTargetsAll(T, assignmentNodes) ==
    IF assignmentNodes = <<>> THEN <<>>
    ELSE LET lhs == findFirstNodeByTag(T, Head(assignmentNodes), "kLPValue")
             ids == IF lhs = NULL THEN <<>>
                    ELSE SelectSeq(getAllLeaves(T, lhs), LAMBDA l : T[l].tag = "SymbolIdentifier")
         IN  [i \in 1..Len(ids) |-> T[ids[i]].text]
                 \o AssignmentTargetsAll(T, Tail(assignmentNodes))

RECURSIVE AssignmentTargets(_, _)
AssignmentTargets(T, assignmentNodes) ==
    IF assignmentNodes = <<>> THEN <<>>
    ELSE LET lhs == findFirstNodeByTag(T, Head(assignmentNodes), "kLPValue")
             ids == IF lhs = NULL THEN <<>>
                    ELSE SelectSeq(getAllLeaves(T, lhs), LAMBDA l : T[l].tag = "SymbolIdentifier")
             rest == AssignmentTargets(T, Tail(assignmentNodes))
         IN  IF ids # <<>> THEN <<T[ids[1]].text>> \o rest ELSE rest

findAssignedSignals(T, node) ==
    AssignmentTargets(T, findNodesByTag(T, node, "kNetVariableAssignment")
                             \o findNodesByTag(T, node, "kBlockingAssignmentStatement")
                             \o findNodesByTag(T, node, "kNonblockingAssignmentStatement"))

\* A block counted as clocked as soon as it has an event expression, which
\* hasClockEdge must differ from on always @(c).
hasEventExpression(T, alwaysNode) ==
    findNodesByTag(T, alwaysNode, "kEventExpression") # <<>>

\* hasClockEdge of one always block
hasClockEdge(T, alwaysNode) ==
    LET eventExpressions == findNodesByTag(T, alwaysNode, "kEventExpression")
    IN  \E i \in 1..Len(eventExpressions) :
            LET eventLeaves == getAllLeaves(T, eventExpressions[i])
            IN  \E j \in 1..Len(eventLeaves) :
                    T[eventLeaves[j]].text \in {kw_posedge, kw_negedge}

SeqToSet(s) == {s[i] : i \in 1..Len(s)}

\* Takes a name out of the other set when it adds it to one, which SignalSets
\* does not do.
RECURSIVE SignalSetsExclusive(_, _, _)
SignalSetsExclusive(T, alwaysNodes, sets) ==
    IF alwaysNodes = <<>> THEN sets
    ELSE LET assignedSignals == SeqToSet(findAssignedSignals(T, Head(alwaysNodes)))
         IN  SignalSetsExclusive(T, Tail(alwaysNodes),
                 IF hasClockEdge(T, Head(alwaysNodes))
                 THEN [clocked |-> sets.clocked \cup assignedSignals,
                       latch |-> sets.latch \ assignedSignals]
                 ELSE [clocked |-> sets.clocked \ assignedSignals,
                       latch |-> sets.latch \cup assignedSignals])

\* Adds the names of an edge-triggered block to both sets, which SignalSets
\* must not do.
RECURSIVE SignalSetsShared(_, _, _)
SignalSetsShared(T, alwaysNodes, sets) ==
    IF alwaysNodes = <<>> THEN sets
    ELSE LET assignedSignals == SeqToSet(findAssignedSignals(T, Head(alwaysNodes)))
         IN  SignalSetsShared(T, Tail(alwaysNodes),
                 IF hasClockEdge(T, Head(alwaysNodes))
                 THEN [clocked |-> sets.clocked \cup assignedSignals,
                       latch |-> sets.latch \cup assignedSignals]
                 ELSE [sets EXCEPT !.latch = @ \cup assignedSignals])

\* The first loop of refineRegisters: sets = [clocked, latch] after the blocks.
RECURSIVE SignalSets(_, _, _)
SignalSets(T, alwaysNodes, sets) ==
    IF alwaysNodes = <<>> THEN sets
    ELSE LET assignedSignals == SeqToSet(findAssignedSignals(T, Head(alwaysNodes)))
         IN  SignalSets(T, Tail(alwaysNodes),
                 IF hasClockEdge(T, Head(alwaysNodes))
                 THEN [sets EXCEPT !.clocked = @ \cup assignedSignals]
                 ELSE [sets EXCEPT !.latch = @ \cup assignedSignals])

\* The two set tests in the other order, which RefinedType must differ from on
\* a name of both sets.
RefinedTypeLatchFirst(sets, register) ==
    IF register.name \in sets.latch THEN "latch"
    ELSE IF register.name \in sets.clocked THEN "flip_flop"
    ELSE "flip_flop"

\* No write in the last branch, which RefinedType must differ from on a name
\* of neither set.
RefinedTypeKept(sets, register) ==
    IF register.name \in sets.clocked THEN "flip_flop"
    ELSE IF register.name \in sets.latch THEN "latch"
    ELSE register.type

\* The second loop of refineRegisters: the type written to one register.
RefinedType(sets, register) ==
    IF register.name \in sets.clocked THEN "flip_flop"
    ELSE IF register.name \in sets.latch THEN "latch"
    ELSE "flip_flop"

refineRegisters(T, alwaysNodes, registers) ==
    LET sets == SignalSets(T, alwaysNodes, [clocked |-> {}, latch |-> {}])
    IN  [i \in 1..Len(registers) |->
            [registers[i] EXCEPT !.type = RefinedType(sets, registers[i])]]

\* potentialRegisters.push({...reg, file: filepath, module: moduleName})
RECURSIVE ParseEach(_, _, _, _, _, _)
ParseEach(T, decls, content, isPort, filepath, moduleName) ==
    IF decls = <<>> THEN <<>>
    ELSE LET Pushed(regs) ==
                 [i \in 1..Len(regs) |->
                     [regs[i] EXCEPT !.file = filepath, !.module = moduleName]]
         IN  Pushed(IF isPort THEN parsePortDeclaration(T, Head(decls), content)
                    ELSE parseDataDeclaration(T, Head(decls), content))
                 \o ParseEach(T, Tail(decls), content, isPort, filepath, moduleName)

extractRegistersFromModule(T, moduleNode, filepath, moduleName, content) ==
    LET dataDeclarations == findNodesByTag(T, moduleNode, "kDataDeclaration")
        moduleHeader == findFirstNodeByTag(T, moduleNode, "kModuleHeader")
        portDecls == IF moduleHeader # NULL
                     THEN findNodesByTag(T, moduleHeader, "kPortDeclaration") ELSE <<>>
        alwaysBlocks == findNodesByTag(T, moduleNode, "kAlwaysStatement")
    IN  refineRegisters(T, alwaysBlocks,
            ParseEach(T, dataDeclarations, content, FALSE, filepath, moduleName)
                \o ParseEach(T, portDecls, content, TRUE, filepath, moduleName))

(***************************************************************************)
(* analyzeFile.                                                            *)
(***************************************************************************)
NoFileResult == [registers |-> <<>>, modules |-> <<>>]

\* A summary that does not take the count, which ModuleInfo must differ from
\* on a module with a register.
ModuleInfoUncounted(name, file, line, registerCount) ==
    [name |-> name, file |-> file, line |-> line, registerCount |-> 0]

ModuleInfo(name, file, line, registerCount) ==
    [name |-> name, file |-> file, line |-> line, registerCount |-> registerCount]

\* for (const moduleNode of moduleNodes) { ... }
RECURSIVE ModuleLoop(_, _, _, _, _)
ModuleLoop(T, moduleNodes, filepath, content, acc) ==
    IF moduleNodes = <<>> THEN acc
    ELSE LET moduleNode == Head(moduleNodes)
             Pushed(moduleName, moduleLine, moduleRegisters) ==
                 IF moduleName # <<>>
                 THEN [registers |-> acc.registers \o moduleRegisters,
                       modules |-> Append(acc.modules,
                                      ModuleInfo(moduleName, filepath, moduleLine,
                                                 Len(moduleRegisters)))]
                 ELSE acc
         IN  ModuleLoop(T, Tail(moduleNodes), filepath, content,
                 Pushed(getModuleName(T, moduleNode),
                        getLineNumberFromNode(T, moduleNode, content),
                        extractRegistersFromModule(T, moduleNode, filepath,
                            getModuleName(T, moduleNode), content)))

\* analyzeFile after parseTreeStructure has returned the tree (T, rootRef);
\* readable tells whether fs.readFile succeeds and content is what it reads.
\* Whatever is thrown is caught and gives the empty result.
ExtractFile(T, rootRef, filepath, readable, content) ==
    IF rootRef = NULL THEN NoFileResult
    ELSE IF ~readable THEN NoFileResult
    ELSE ModuleLoop(T, findNodesByTag(T, rootRef, "kModuleDeclaration"),
                    filepath, content, NoFileResult)

(***************************************************************************)
(* processResult: the grouping loop over allRegisters and the result.      *)
(***************************************************************************)
\* Property names every JavaScript object inherits: byModule[name] is truthy
\* for them although nothing was stored under the name.
ObjectPrototypeNames ==
    {<<"v", "a", "l", "u", "e", "O", "f">>,
     <<"t", "o", "S", "t", "r", "i", "n", "g">>,
     <<"c", "o", "n", "s", "t", "r", "u", "c", "t", "o", "r">>}

\* A count that stays at 1, which Increment must differ from on the second
\* register of a type.
IncrementOnce(byType, type) ==
    [t \in DOMAIN byType \cup {type} |-> IF t = type THEN 1 ELSE byType[t]]

Increment(byType, type) ==
    IF type \in DOMAIN byType
    THEN [byType EXCEPT ![type] = @ + 1]
    ELSE [t \in DOMAIN byType \cup {type} |-> IF t = type THEN 1 ELSE byType[t]]

\* A push at the front of the module's group, which PushGroup must differ
\* from on the second register of a module.
PushGroupFirst(byModule, reg) ==
    IF reg.module \in DOMAIN byModule
    THEN [byModule EXCEPT ![reg.module] = <<reg>> \o @]
    ELSE [m \in DOMAIN byModule \cup {reg.module} |->
             IF m = reg.module THEN <<reg>> ELSE byModule[m]]

\* Starts the module's group again for a register of another file, which
\* PushGroup must not do for modules of one name in two files.
PushGroupPerFile(byModule, reg) ==
    IF reg.module \in DOMAIN byModule
    THEN [byModule EXCEPT ![reg.module] =
             IF Last(@).file = reg.file THEN Append(@, reg) ELSE <<reg>>]
    ELSE [m \in DOMAIN byModule \cup {reg.module} |->
             IF m = reg.module THEN <<reg>> ELSE byModule[m]]

PushGroup(byModule, reg) ==
    IF reg.module \in DOMAIN byModule
    THEN [byModule EXCEPT ![reg.module] = Append(@, reg)]
    ELSE [m \in DOMAIN byModule \cup {reg.module} |->
             IF m = reg.module THEN <<reg>> ELSE byModule[m]]

EmptyMap == [x \in {} |-> 0]

\* for (const reg of allRegisters) { ... }; thrown is set when
\* byModule[reg.module].push is not a function.
RECURSIVE GroupLoop(_, _)
GroupLoop(regs, acc) ==
    IF regs = <<>> \/ acc.thrown THEN acc
    ELSE LET reg == Head(regs)
         IN  GroupLoop(Tail(regs),
                 IF reg.module \in ObjectPrototypeNames
                 THEN [acc EXCEPT !.thrown = TRUE]
                 ELSE [byType |-> Increment(acc.byType, reg.type),
                       byModule |-> PushGroup(acc.byModule, reg),
                       totalBits |-> JsAdd(acc.totalBits, reg.width),
                       thrown |-> FALSE])

FailureResult == [success |-> FALSE]

Aggregate(registers, modules) ==
    LET g == GroupLoop(registers, [byType |-> EmptyMap, byModule |-> EmptyMap,
                                   totalBits |-> Num(0), thrown |-> FALSE])
    IN  IF g.thrown THEN FailureResult
        ELSE [success |-> TRUE,
              registers |-> registers,
              totalRegisters |-> Len(registers),
              byType |-> g.byType,
              byModule |-> g.byModule,
              totalBits |-> g.totalBits,
              modules |-> modules]

\* The result for an analysis_type other than registers and all.
DefaultResult ==
    [success |-> TRUE, registers |-> <<>>, totalRegisters |-> 0, byType |-> EmptyMap,
     byModule |-> EmptyMap, totalBits |-> Num(0)]

(***************************************************************************)
(* The sources analysed and the tool's dump of them.  A source is a        *)
(* sequence of module descriptions; SyntaxTreeOf builds the concrete       *)
(* syntax tree the tool prints for it, with the tags analyze.ts searches   *)
(* for, and ToolOutput prints that tree the way --printtree does: a        *)
(* header line, two spaces per level, "Node @i (tag: kTag) {", a closing   *)
(* brace line per node, and "Leaf @i (#tag @start-end: "text")".           *)
(***************************************************************************)
N(tag, kids) == [isNode |-> TRUE, tag |-> tag, text |-> <<>>, kids |-> kids]

L(tag, text) == [isNode |-> FALSE, tag |-> tag, text |-> text, kids |-> <<>>]

Punct(c) == L("'" \o c \o "'", <<c>>)

\* An escaped identifier, \e : the dump gives its leaf the tag
\* EscapedIdentifier.
SigEsc == <<"\\", "e">>

NameLeaf(name) ==
    L(IF Head(name) = "\\" THEN "EscapedIdentifier" ELSE "SymbolIdentifier", name)

Ident(name) == N("kUnqualifiedId", <<NameLeaf(name)>>)

kw_always == <<"a", "l", "w", "a", "y", "s">>

kw_always_latch == kw_always \o <<"_", "l", "a", "t", "c", "h">>

kw_endmodule == <<"e", "n", "d">> \o kw_module

RECURSIVE DecText(_)
DecText(n) ==
    IF n < 10 THEN <<DecDigits[n + 1]>>
    ELSE DecText(n \div 10) \o <<DecDigits[(n % 10) + 1]>>

\* [ leaves ]
PackedDimensions(leaves) ==
    N("kPackedDimensions", <<N("kDimensionRange", <<Punct("[")>> \o leaves \o <<Punct("]")>>)>>)

Number(text) == N("kExpression", <<L("TK_DecNumber", text)>>)

\* A decimal literal too long for a double: parseInt gives Infinity.
HugeLiteral == [i \in 1..DoubleDecDigits |-> "9"]

SigN == <<"N">>

\* The packed dimensions of a declaration, dim = [shape, msb, lsb]:
\*   none    no dimension           range   [msb:lsb]
\*   single  [msb]                  param   [N:lsb]
\*   minus   [N-msb:lsb]            based   [msb'hF:lsb]
\*   huge    [99..9:99..9]          hugemsb [99..9:lsb]
Dim(shape, msb, lsb) == [shape |-> shape, msb |-> msb, lsb |-> lsb]

DimTrees(dim) ==
    CASE dim.shape = "none" -> <<>>
      [] dim.shape = "range" ->
            <<PackedDimensions(<<Number(DecText(dim.msb)), Punct(":"),
                                 Number(DecText(dim.lsb))>>)>>
      [] dim.shape = "single" -> <<PackedDimensions(<<Number(DecText(dim.msb))>>)>>
      [] dim.shape = "param" ->
            <<PackedDimensions(<<N("kExpression", <<Ident(SigN)>>), Punct(":"),
                                 Number(DecText(dim.lsb))>>)>>
      [] dim.shape = "minus" ->
            <<PackedDimensions(<<N("kBinaryExpression",
                                   <<N("kExpression", <<Ident(SigN)>>), Punct("-"),
                                     Number(DecText(dim.msb))>>),
                                 Punct(":"), Number(DecText(dim.lsb))>>)>>
      [] dim.shape = "based" ->
            <<PackedDimensions(<<N("kNumber",
                                   <<L("TK_DecNumber", DecText(dim.msb)),
                                     L("TK_HexBase", <<"'", "h">>),
                                     L("TK_HexDigits", <<"F">>)>>),
                                 Punct(":"), Number(DecText(dim.lsb))>>)>>
      [] dim.shape = "huge" ->
            <<PackedDimensions(<<Number(HugeLiteral), Punct(":"), Number(HugeLiteral)>>)>>
      [] dim.shape = "hugemsb" ->
            <<PackedDimensions(<<Number(HugeLiteral), Punct(":"), Number(DecText(dim.lsb))>>)>>

\* A keyword token: the dump gives it the keyword as its tag, #"reg".
Keyword(text) ==
    L(CASE text = kw_reg -> "reg"
        [] text = kw_logic -> "logic"
        [] text = kw_wire -> "wire"
        [] text = kw_input -> "input"
        [] text = kw_output -> "output"
        [] text = kw_inout -> "inout",
      text)

\* wire logic: a net type followed by a data type
WireLogic == kw_wire \o <<" ">> \o kw_logic

\* kind [dim]: the data type of a declaration; kind <<>> is no type keyword
DataType(kind, dim) ==
    N("kDataType",
      (IF kind = <<>> THEN <<>>
       ELSE IF kind = WireLogic
       THEN <<Keyword(kw_wire), N("kDataTypePrimitive", <<Keyword(kw_logic)>>)>>
       ELSE <<N("kDataTypePrimitive", <<Keyword(kind)>>)>>) \o DimTrees(dim))

RECURSIVE Declarators(_)
Declarators(names) ==
    IF names = <<>> THEN <<>>
    ELSE <<N("kRegisterVariable", <<NameLeaf(Head(names))>>)>>
             \o (IF Len(names) > 1 THEN <<Punct(",")>> ELSE <<>>)
             \o Declarators(Tail(names))

\* kind [dim] name, name;      decl = [kind, dim, names]
DataDeclarationTree(decl) ==
    N("kDataDeclaration",
      <<N("kInstantiationBase",
          <<N("kInstantiationType", <<DataType(decl.kind, decl.dim)>>),
            N("kGateInstanceRegisterVariableList", Declarators(decl.names))>>),
        Punct(";")>>)

\* dir kind [dim] name         port = [dir, kind, dim, name]
PortDeclarationTree(port) ==
    N("kPortDeclaration",
      <<Keyword(port.dir), DataType(port.kind, port.dim), Ident(port.name)>>)

MapTrees(Tree(_), items) == [i \in 1..Len(items) |-> Tree(items[i])]

SigR == <<"r">>

SigS == <<"s">>

SigU == <<"u">>

SigClk == <<"c">>

\* The target of an assignment printed without a kLPValue node.
NoTarget == <<>>

\* target <= u;  target = u;  and s is always written through an index: s[r]
AssignmentTree(trigger, target) ==
    N(CASE trigger = "posedge" -> "kNonblockingAssignmentStatement"
        [] trigger = "negedge" -> "kBlockingAssignmentStatement"
        [] OTHER -> "kNetVariableAssignment",
      (IF target = NoTarget THEN <<>>
       ELSE <<N("kLPValue",
                <<N("kReference",
                    <<Ident(target)>>
                        \o (IF target = SigS
                            THEN <<N("kDimensionScalar",
                                     <<Punct("["), N("kExpression", <<Ident(SigR)>>),
                                       Punct("]")>>)>>
                            ELSE <<>>))>>)>>) \o
      <<IF trigger = "posedge" THEN L("\"<=\"", <<"<", "=">>) ELSE Punct("="),
        N("kExpression", <<Ident(SigU)>>),
        Punct(";")>>)

\* always @(posedge c) ...; always @(negedge c) ...; always @(c) ...;
\* always_latch ...         block = [trigger, targets]
AlwaysTree(block) ==
    LET statements ==
            N("kSeqBlock", MapTrees(LAMBDA t : AssignmentTree(block.trigger, t), block.targets))
    IN  IF block.trigger = "none"
        THEN N("kAlwaysStatement", <<L("always_latch", kw_always_latch), statements>>)
        ELSE N("kAlwaysStatement",
               <<L("always", kw_always),
                 N("kProceduralTimingControlStatement",
                   <<N("kEventControl",
                       <<Punct("@"), Punct("("),
                         N("kEventExpressionList",
                           <<N("kEventExpression",
                               (CASE block.trigger = "posedge" -> <<L("posedge", kw_posedge)>>
                                  [] block.trigger = "negedge" -> <<L("negedge", kw_negedge)>>
                                  [] OTHER -> <<>>)
                                   \o <<N("kExpression", <<Ident(SigClk)>>)>>)>>),
                         Punct(")")>>),
                     statements>>)>>)

\* The name of a module description whose declaration is printed without a
\* kModuleHeader node.
NoHeader == <<"-">>

\* module name (ports); decls modules blocks endmodule
\* mod = [name, ports, decls, nested, blocks]
RECURSIVE ModuleTree(_)
ModuleTree(mod) ==
    N("kModuleDeclaration",
      (IF mod.name = NoHeader THEN <<>>
       ELSE <<N("kModuleHeader",
                <<L("module", kw_module)>>
                    \o (IF mod.name = <<>> THEN <<>> ELSE <<L("SymbolIdentifier", mod.name)>>)
                    \o (IF mod.ports = <<>> THEN <<>>
                        ELSE <<N("kPortDeclarationList",
                                 MapTrees(PortDeclarationTree, mod.ports))>>)
                    \o <<Punct(";")>>)>>) \o
      <<N("kModuleItemList",
          MapTrees(DataDeclarationTree, mod.decls) \o MapTrees(ModuleTree, mod.nested)
              \o MapTrees(AlwaysTree, mod.blocks)),
        L("endmodule", kw_endmodule)>>)

SyntaxTreeOf(src) == N("kDescriptionList", MapTrees(ModuleTree, src))

\* The source text: the tokens in order, a newline after each ";" and a space
\* after every other token.
Separator(text) == IF text = <<";">> THEN "\n" ELSE " "

RECURSIVE TokensText(_)
RECURSIVE TokensOfKids(_)
TokensText(t) ==
    IF t.isNode THEN TokensOfKids(t.kids) ELSE t.text \o <<Separator(t.text)>>

TokensOfKids(kids) ==
    IF kids = <<>> THEN <<>> ELSE TokensText(Head(kids)) \o TokensOfKids(Tail(kids))

\* The lines of the subtree t, printed at indentation ws when its first token
\* is at byte `offset` of the source text.
RECURSIVE PrintTree(_, _, _)
RECURSIVE PrintKids(_, _, _)
PrintTree(t, ws, offset) ==
    IF t.isNode
    THEN <<NodeLine(ws, t.tag)>> \o PrintKids(t.kids, ws + 2, offset) \o <<OtherLine>>
    ELSE <<LeafLine(ws, t.tag, offset, offset + Len(t.text), t.text)>>

PrintKids(kids, ws, offset) ==
    IF kids = <<>> THEN <<>>
    ELSE PrintTree(Head(kids), ws, offset)
             \o PrintKids(Tail(kids), ws, offset + Len(TokensText(Head(kids))))

\* The tree dump of the source, after the header line "Parse Tree:".
ToolOutput(src) == <<OtherLine>> \o PrintTree(SyntaxTreeOf(src), 0, 0)

SourceContent(src) == TokensText(SyntaxTreeOf(src))


\* analyzeExecutor.execute(syntaxPath, ['--printtree', filepath]) on a file
\* [path, tool, src, readable].  tool says how the run ends: "tree" (exit
\* code 0, the dump on stdout), "silent" (exit code 0, no tree printed),
\* "error" (exit code 1; what was parsed is still printed) or "timeout"
\* (execute throws).
Execute(file) ==
    CASE file.tool = "tree" -> [threw |-> FALSE, exitCode |-> 0, stdout |-> ToolOutput(file.src)]
      [] file.tool = "silent" -> [threw |-> FALSE, exitCode |-> 0, stdout |-> <<OtherLine>>]
      [] file.tool = "error" -> [threw |-> FALSE, exitCode |-> 1, stdout |-> ToolOutput(file.src)]
      [] OTHER -> [threw |-> TRUE, exitCode |-> 0, stdout |-> <<>>]

\* A test that lets a non-zero exit code through, which RunFailed must differ
\* from.
RunThrew(run) == run.threw

\* The run gives analyzeFile no output to read: execute threw, or
\* result.exitCode !== 0.
RunFailed(run) == run.threw \/ run.exitCode # 0

(***************************************************************************)
(* The files of the specifications.                                        *)
(***************************************************************************)
Decl(kind, dim, names) == [kind |-> kind, dim |-> dim, names |-> names]

Port(dir, kind, dim, name) == [dir |-> dir, kind |-> kind, dim |-> dim, name |-> name]

\* A module with module declarations among its items, after its declarations.
NestingModule(name, ports, decls, nested, blocks) ==
    [name |-> name, ports |-> ports, decls |-> decls, nested |-> nested, blocks |-> blocks]

Module(name, ports, decls, blocks) == NestingModule(name, ports, decls, <<>>, blocks)

Block(trigger, targets) == [trigger |-> trigger, targets |-> targets]

File(path, tool, src, readable) ==
    [path |-> path, tool |-> tool, src |-> src, readable |-> readable]

NameM == <<"m">>

NameN == <<"n">>

SigQ == <<"q">>

NoDim == Dim("none", 0, 0)

Triggers == {"posedge", "level", "none"}

BlockKinds == [trigger : Triggers, targets : {<<SigR>>, <<SigS>>, <<SigR, SigS>>}]

BlockSeqs == UNION {[1..n -> BlockKinds] : n \in 0..MaxBlocks}

\* module m; reg [3:0] r, s; reg u; <blocks> endmodule
ClassifyModule(blocks) ==
    Module(NameM, <<>>,
           <<Decl(kw_reg, Dim("range", 3, 0), <<SigR, SigS>>), Decl(kw_reg, NoDim, <<SigU>>)>>,
           blocks)

ClassifyFiles == {File("c.v", "tree", <<ClassifyModule(bs)>>, TRUE) : bs \in BlockSeqs}

\* module m; reg [7:0] r; always @(posedge c) r <= u; endmodule
ModuleFF8 ==
    Module(NameM, <<>>, <<Decl(kw_reg, Dim("range", 7, 0), <<SigR>>)>>,
           <<Block("posedge", <<SigR>>)>>)

\* module n (input wire c, output reg [0:1] q); logic [3:0] r; wire s;
\*   always @(negedge c) q = u; always_latch r = u; endmodule
ModuleLatch ==
    Module(NameN,
           <<Port(kw_input, kw_wire, NoDim, SigClk),
             Port(kw_output, kw_reg, Dim("range", 0, 1), SigQ)>>,
           <<Decl(kw_logic, Dim("range", 3, 0), <<SigR>>), Decl(kw_wire, NoDim, <<SigS>>)>>,
           <<Block("negedge", <<SigQ>>), Block("none", <<SigR>>)>>)

\* module valueOf; reg r; endmodule
ModuleValueOf ==
    Module(<<"v", "a", "l", "u", "e", "O", "f">>, <<>>, <<Decl(kw_reg, NoDim, <<SigR>>)>>, <<>>)

AggregateFiles ==
    {File("a.v", "tree", <<ModuleFF8>>, TRUE),
     File("copy.v", "tree", <<ModuleFF8>>, TRUE),
     File("b.v", "tree", <<ModuleLatch>>, TRUE),
     File("ab.v", "tree", <<ModuleLatch, ModuleFF8>>, TRUE),
     File("blank.v", "tree", <<>>, TRUE),
     File("proto.v", "tree", <<ModuleValueOf>>, TRUE),
     File("error.v", "error", <<ModuleFF8>>, TRUE),
     File("silent.v", "silent", <<ModuleFF8>>, TRUE),
     File("slow.v", "timeout", <<ModuleFF8>>, TRUE),
     File("gone.v", "tree", <<ModuleFF8>>, FALSE)}

AnalysisTypes == {"registers", "all", "modules"}

\* The runs of Spec: every classification file alone, and every batch of up
\* to MaxFiles of the other files under every analysis type.
\* getFilesToAnalyze: one path, or the paths a directory walk finds; no path
\* is there twice.
Batches ==
    UNION {{batch \in [1..n -> AggregateFiles] :
                \A i, j \in 1..n : i # j => batch[i].path # batch[j].path} :
           n \in 0..MaxFiles}

Runs == ({<<f>> : f \in ClassifyFiles} \X {"registers"}) \cup (Batches \X AnalysisTypes)

\* The declarations of SpecDecl: every [msb:lsb] up to MaxNum on a reg, and
\* the other dimension shapes and declaration kinds on two spans.
RangeDims == {Dim("range", msb, lsb) : msb \in 0..MaxNum, lsb \in 0..MaxNum}

ShapeDims ==
    {Dim(shape, span[1], span[2]) :
        shape \in {"none", "range", "single", "param", "minus", "based", "huge", "hugemsb"},
        span \in {<<MaxNum, 0>>, <<0, MaxNum>>}}

DataDecls ==
    {Decl(kw_reg, dim, <<SigR>>) : dim \in RangeDims}
        \cup {Decl(kind, dim, names) :
                kind \in {kw_reg, kw_logic, kw_wire, WireLogic, <<>>}, dim \in ShapeDims,
                names \in {<<SigR>>, <<SigR, SigS>>, <<SigEsc, SigS>>}}

PortDecls ==
    {Port(dir, kind, dim, SigQ) :
        dir \in {kw_input, kw_output, kw_inout},
        kind \in {kw_reg, kw_logic, kw_wire, WireLogic, <<>>},
        dim \in ShapeDims}

\* module m; <decl> endmodule          module m (<port>); endmodule
DeclFiles ==
    {File("d.v", "tree", <<Module(NameM, <<>>, <<decl>>, <<>>)>>, TRUE) : decl \in DataDecls}
        \cup {File("p.v", "tree", <<Module(NameM, <<port>>, <<>>, <<>>)>>, TRUE) :
                port \in PortDecls}

DeclRuns == ({<<f>> : f \in DeclFiles} \X {"registers"}) \cup {<<<<>>, "modules">>}

(***************************************************************************)
(* Spec: processResult on a batch of files.                                *)
(***************************************************************************)
NoResult == [success |-> FALSE, pending |-> TRUE]

\* The values of CacheManager and its idle state.
CacheKeys == {"k1", "k2"}

\* filePath?: undefined is falsy.
NoFile == ""

\* The file a caller passes with a key, to get and to set alike
\* (createCachedFunction: filePathExtractor); "k2" is used without a file.
FileOfKey(key) == IF key = "k1" THEN "a.v" ELSE NoFile

DepFiles == {"d.vh"}

\* dependencies?: string[]
DepLists == {<<>>, <<"d.vh">>}

CacheFiles == {"a.v"} \cup DepFiles

Contents == 0 .. MaxContent

\* fileHash?: undefined, and fileHashes.get(dep) of a path never set.
NoHash == -1

\* getFileHash(filePath): the md5 of the content, one hash per content.
getFileHash(d, filePath) == d[filePath]

NoHashes == [dep \in DepFiles |-> NoHash]

\* CacheEntry: data stands for the result computed from the contents that
\* set hashed; hashesAtSet records the dependency hashes that set read (the
\* code keeps them in fileHashes only, the entry does not have them).
CacheEntry(fileHash, dependencies, hashesAtSet) ==
    [fileHash |-> fileHash, dependencies |-> dependencies, hashesAtSet |-> hashesAtSet]

NoEntry == CacheEntry(NoHash, <<>>, NoHashes)

\* The frame of a call: pc is the await it is suspended at ("file", "dep"),
\* the read that has completed ("fileRead", "depRead"), "return" once get
\* has returned, or "idle"; hash is the value the pending getFileHash
\* resolved to; seenFile and seenDeps are the hashes the call has read.
Frame(p, key, entry, di, hash, seenFile, seenDeps, res) ==
    [pc |-> p, key |-> key, entry |-> entry, di |-> di, hash |-> hash,
     seenFile |-> seenFile, seenDeps |-> seenDeps, result |-> res]

IdleFrame == Frame("idle", "", NoEntry, 0, NoHash, NoHash, NoHashes, "none")

IdleCache ==
    /\ disk = [f \in CacheFiles |-> 0]
    /\ cache = [k \in {} |-> NoEntry]
    /\ fileHashes = NoHashes
    /\ getCall = IdleFrame
    /\ setCall = IdleFrame

IdleParse ==
    /\ output = <<>>
    /\ li = 0
    /\ stack = <<>>
    /\ root = NULL
    /\ nodes = <<>>

IdleExtract ==
    /\ modNodes = <<>>
    /\ mi = 0
    /\ fileRegisters = <<>>
    /\ fileModules = <<>>
    /\ potentialRegisters = <<>>
    /\ blockNodes = <<>>
    /\ bi = 0
    /\ clockedSignals = {}
    /\ latchSignals = {}
    /\ ri = 0

IdleBatch ==
    /\ files = <<>>
    /\ analysisType = "all"
    /\ fi = 0
    /\ allRegisters = <<>>
    /\ allModules = <<>>
    /\ result = NoResult

InitRuns(runs) ==
    /\ pc = "files"
    /\ \E run \in runs : files = run[1] /\ analysisType = run[2]
    /\ fi = 1
    /\ allRegisters = <<>>
    /\ allModules = <<>>
    /\ result = NoResult
    /\ IdleParse
    /\ IdleExtract
    /\ IdleCache

Init == InitRuns(Runs)

\* analyzeFile(file) up to the call of parseTreeStructure: a failed run ends
\* the file's iteration with nothing pushed.
ExecuteTool ==
    /\ pc = "files"
    /\ analysisType \in {"registers", "all"}
    /\ fi <= Len(files)
    /\ LET run == Execute(files[fi])
       IN  IF RunFailed(run)
           THEN /\ fi' = fi + 1
                /\ UNCHANGED <<pc, output, li, stack, root, nodes>>
           ELSE /\ pc' = "lines"
                /\ output' = run.stdout
                /\ li' = 0
                /\ stack' = <<>>
                /\ root' = NULL
                /\ nodes' = <<>>
                /\ fi' = fi
    /\ UNCHANGED <<files, analysisType, allRegisters, allModules, result>>
    /\ UNCHANGED extractVars
    /\ UNCHANGED cacheVars

\* One iteration of parseTreeStructure's loop over the lines of the output.
ParseOutputLine ==
    /\ pc = "lines"
    /\ li < Len(output)
    /\ LET st == ParseStep([stack |-> stack, root |-> root, nodes |-> nodes], output[li + 1])
       IN  /\ stack' = st.stack
           /\ root' = st.root
           /\ nodes' = st.nodes
    /\ li' = li + 1
    /\ UNCHANGED <<pc, output, files, analysisType, fi, allRegisters, allModules, result>>
    /\ UNCHANGED extractVars
    /\ UNCHANGED cacheVars

\* Pushes in front of what the files before have given, which ExtractModules
\* must differ from on the second file of a batch.
ExtractModulesInFront ==
    /\ pc = "lines"
    /\ li = Len(output)
    /\ LET Pushed(fileResult) ==
               /\ allRegisters' = fileResult.registers \o allRegisters
               /\ allModules' = fileResult.modules \o allModules
       IN  Pushed(ExtractFile(nodes, root, files[fi].path, files[fi].readable,
                              SourceContent(files[fi].src)))
    /\ fi' = fi + 1
    /\ pc' = "files"
    /\ output' = <<>>
    /\ li' = 0
    /\ stack' = <<>>
    /\ root' = NULL
    /\ nodes' = <<>>
    /\ UNCHANGED <<files, analysisType, result>>
    /\ UNCHANGED extractVars
    /\ UNCHANGED cacheVars

\* parseTreeStructure returns root; the rest of analyzeFile, and the two
\* pushes of processResult's loop.
ExtractModules ==
    /\ pc = "lines"
    /\ li = Len(output)
    /\ LET Pushed(fileResult) ==
               /\ allRegisters' = allRegisters \o fileResult.registers
               /\ allModules' = allModules \o fileResult.modules
       IN  Pushed(ExtractFile(nodes, root, files[fi].path, files[fi].readable,
                              SourceContent(files[fi].src)))
    /\ fi' = fi + 1
    /\ pc' = "files"
    /\ output' = <<>>
    /\ li' = 0
    /\ stack' = <<>>
    /\ root' = NULL
    /\ nodes' = <<>>
    /\ UNCHANGED <<files, analysisType, result>>
    /\ UNCHANGED extractVars
    /\ UNCHANGED cacheVars

\* After the loop: the grouping and the returned result.
ReturnAggregate ==
    /\ pc = "files"
    /\ analysisType \in {"registers", "all"}
    /\ fi > Len(files)
    /\ result' = Aggregate(allRegisters, allModules)
    /\ pc' = "done"
    /\ UNCHANGED <<files, analysisType, fi, allRegisters, allModules, output, li, stack,
                   root, nodes>>
    /\ UNCHANGED extractVars
    /\ UNCHANGED cacheVars

ReturnDefault ==
    /\ pc = "files"
    /\ analysisType \notin {"registers", "all"}
    /\ result' = DefaultResult
    /\ pc' = "done"
    /\ UNCHANGED <<files, analysisType, fi, allRegisters, allModules, output, li, stack,
                   root, nodes>>
    /\ UNCHANGED extractVars
    /\ UNCHANGED cacheVars

Next == ExecuteTool \/ ParseOutputLine \/ ExtractModules \/ ReturnAggregate \/ ReturnDefault

Spec == Init /\ [][Next]_vars

(***************************************************************************)
(* SpecDecl: processResult on one file with one declaration.               *)
(***************************************************************************)
InitDecl == InitRuns(DeclRuns)

SpecDecl == InitDecl /\ [][Next]_vars

(***************************************************************************)
(* SpecExtract: processResult on files whose modules have ports, nested    *)
(* modules, equal names or no name, with analyzeFile, the loops of         *)
(* extractRegistersFromModule and the two loops of refineRegisters taken   *)
(* one iteration per step.                                                 *)
(***************************************************************************)
SigX == <<"x">>

\* module m (input wire c, output reg [7:0] q); reg r; wire s; logic x;
\*   always @(posedge c) q <= u; always_latch r = u; endmodule
ModulePorts ==
    Module(NameM,
           <<Port(kw_input, kw_wire, NoDim, SigClk),
             Port(kw_output, kw_reg, Dim("range", 7, 0), SigQ)>>,
           <<Decl(kw_reg, NoDim, <<SigR>>), Decl(kw_wire, NoDim, <<SigS>>),
             Decl(kw_logic, NoDim, <<SigX>>)>>,
           <<Block("posedge", <<SigQ>>), Block("none", <<SigR>>)>>)

\* module m; reg r;
\*   module n; reg [3:0] s; always @(posedge c) s <= u; endmodule
\*   always_latch r = u; endmodule
ModuleNesting ==
    NestingModule(NameM, <<>>, <<Decl(kw_reg, NoDim, <<SigR>>)>>,
                  <<Module(NameN, <<>>, <<Decl(kw_reg, Dim("range", 3, 0), <<SigS>>)>>,
                           <<Block("posedge", <<SigS>>)>>)>>,
                  <<Block("none", <<SigR>>)>>)

\* module m; reg x; endmodule
ModuleAgain == Module(NameM, <<>>, <<Decl(kw_reg, NoDim, <<SigX>>)>>, <<>>)

\* A module whose header has no SymbolIdentifier leaf (its name is an escaped
\* identifier): module \m ; reg r; endmodule
ModuleUnnamed == Module(<<>>, <<>>, <<Decl(kw_reg, NoDim, <<SigR>>)>>, <<>>)

\* A module declaration without a header: reg r; endmodule
ModuleHeadless == Module(NoHeader, <<>>, <<Decl(kw_reg, NoDim, <<SigR>>)>>, <<>>)

\* module m; reg x; module \n ; reg r; endmodule endmodule
ModuleHolding ==
    NestingModule(NameM, <<>>, <<Decl(kw_reg, NoDim, <<SigX>>)>>, <<ModuleUnnamed>>, <<>>)

\* module m; reg r, s;
\*   always_latch begin \e = u; = u; s[r] = u; end
\*   always @(posedge c) \e <= u; endmodule
\* with the two assignments that name no target: one whose left-hand side has
\* no SymbolIdentifier leaf, one without left-hand side.
ModuleOpaque ==
    Module(NameM, <<>>, <<Decl(kw_reg, NoDim, <<SigR, SigS>>)>>,
           <<Block("none", <<SigEsc, NoTarget, SigS>>), Block("posedge", <<SigEsc>>)>>)

ExtractFiles ==
    {File("ports.v", "tree", <<ModulePorts>>, TRUE),
     File("lhs.v", "tree", <<ModuleOpaque>>, TRUE),
     File("bare.v", "tree", <<ModuleAgain, ModuleHeadless, ModuleFF8>>, TRUE),
     File("hold.v", "tree", <<ModuleHolding>>, TRUE),
     File("nest.v", "tree", <<ModuleNesting>>, TRUE),
     File("twice.v", "tree", <<ModuleFF8, ModuleAgain>>, TRUE),
     File("skip.v", "tree", <<ModuleUnnamed, ModuleLatch>>, TRUE),
     File("proto.v", "tree", <<ModuleValueOf>>, TRUE),
     File("silent.v", "silent", <<ModuleFF8>>, TRUE),
     File("gone.v", "tree", <<ModuleFF8>>, FALSE)}

\* Every batch of up to MaxFiles of these files, no path twice.
ExtractBatches ==
    UNION {{batch \in [1..n -> ExtractFiles] :
                \A i, j \in 1..n : i # j => batch[i].path # batch[j].path} :
           n \in 0..MaxFiles}

ExtractRuns ==
    ({<<f>> : f \in ClassifyFiles} \X {"registers"}) \cup (ExtractBatches \X {"all"})

InitExtract == InitRuns(ExtractRuns)

\* analyzeFile from the return of parseTreeStructure to the module loop: no
\* root, or a file that cannot be read, ends the file with the empty result.
FindModules ==
    /\ pc = "lines"
    /\ li = Len(output)
    /\ IF root = NULL \/ ~files[fi].readable
       THEN /\ fi' = fi + 1
            /\ pc' = "files"
            /\ output' = <<>>
            /\ li' = 0
            /\ stack' = <<>>
            /\ root' = NULL
            /\ nodes' = <<>>
            /\ UNCHANGED <<modNodes, mi, fileRegisters, fileModules>>
       ELSE /\ modNodes' = findNodesByTag(nodes, root, "kModuleDeclaration")
            /\ mi' = 1
            /\ fileRegisters' = <<>>
            /\ fileModules' = <<>>
            /\ pc' = "modules"
            /\ UNCHANGED <<fi, output, li, stack, root, nodes>>
    /\ UNCHANGED <<files, analysisType, allRegisters, allModules, result,
                   potentialRegisters, blockNodes, bi, clockedSignals, latchSignals, ri>>
    /\ UNCHANGED cacheVars

\* One module of the loop up to the call of refineRegisters: a module without
\* a name is skipped, the candidates of the others are created.
ExtractCandidates ==
    /\ pc = "modules"
    /\ mi <= Len(modNodes)
    /\ IF getModuleName(nodes, modNodes[mi]) = <<>>
       THEN /\ mi' = mi + 1
            /\ UNCHANGED <<pc, potentialRegisters, blockNodes, bi, clockedSignals,
                           latchSignals, ri>>
       ELSE /\ potentialRegisters' =
                   ParseEach(nodes, findNodesByTag(nodes, modNodes[mi], "kDataDeclaration"),
                             SourceContent(files[fi].src), FALSE, files[fi].path,
                             getModuleName(nodes, modNodes[mi]))
                   \o ParseEach(nodes,
                                IF findFirstNodeByTag(nodes, modNodes[mi], "kModuleHeader") # NULL
                                THEN findNodesByTag(nodes,
                                         findFirstNodeByTag(nodes, modNodes[mi], "kModuleHeader"),
                                         "kPortDeclaration")
                                ELSE <<>>,
                                SourceContent(files[fi].src), TRUE, files[fi].path,
                                getModuleName(nodes, modNodes[mi]))
            /\ blockNodes' = findNodesByTag(nodes, modNodes[mi], "kAlwaysStatement")
            /\ bi' = 1
            /\ clockedSignals' = {}
            /\ latchSignals' = {}
            /\ ri' = 1
            /\ pc' = "blocks"
            /\ mi' = mi
    /\ UNCHANGED <<output, li, stack, root, nodes, files, analysisType, fi, allRegisters,
                   allModules, result, modNodes, fileRegisters, fileModules>>
    /\ UNCHANGED cacheVars

\* One iteration of the first loop of refineRegisters.
ScanBlock ==
    /\ pc = "blocks"
    /\ bi <= Len(blockNodes)
    /\ LET Added(sets) ==
               /\ clockedSignals' = sets.clocked
               /\ latchSignals' = sets.latch
       IN  Added(SignalSets(nodes, <<blockNodes[bi]>>,
                            [clocked |-> clockedSignals, latch |-> latchSignals]))
    /\ bi' = bi + 1
    /\ UNCHANGED <<pc, output, li, stack, root, nodes, files, analysisType, fi, allRegisters,
                   allModules, result, modNodes, mi, fileRegisters, fileModules,
                   potentialRegisters, blockNodes, ri>>
    /\ UNCHANGED cacheVars

\* One iteration of the second loop of refineRegisters: register.type = ...
WriteType ==
    /\ pc = "blocks"
    /\ bi > Len(blockNodes)
    /\ ri <= Len(potentialRegisters)
    /\ potentialRegisters' =
           [potentialRegisters EXCEPT ![ri].type =
               RefinedType([clocked |-> clockedSignals, latch |-> latchSignals],
                           potentialRegisters[ri])]
    /\ ri' = ri + 1
    /\ UNCHANGED <<pc, output, li, stack, root, nodes, files, analysisType, fi, allRegisters,
                   allModules, result, modNodes, mi, fileRegisters, fileModules, blockNodes,
                   bi, clockedSignals, latchSignals>>
    /\ UNCHANGED cacheVars

\* extractRegistersFromModule returns: registers.push(...moduleRegisters) and
\* modules.push({name, file, line, registerCount}).
PushModule ==
    /\ pc = "blocks"
    /\ bi > Len(blockNodes)
    /\ ri > Len(potentialRegisters)
    /\ fileRegisters' = fileRegisters \o potentialRegisters
    /\ fileModules' =
           Append(fileModules,
                  ModuleInfo(getModuleName(nodes, modNodes[mi]), files[fi].path,
                             getLineNumberFromNode(nodes, modNodes[mi],
                                                   SourceContent(files[fi].src)),
                             Len(potentialRegisters)))
    /\ mi' = mi + 1
    /\ pc' = "modules"
    /\ potentialRegisters' = <<>>
    /\ blockNodes' = <<>>
    /\ bi' = 0
    /\ clockedSignals' = {}
    /\ latchSignals' = {}
    /\ ri' = 0
    /\ UNCHANGED <<output, li, stack, root, nodes, files, analysisType, fi, allRegisters,
                   allModules, result, modNodes>>
    /\ UNCHANGED cacheVars

\* analyzeFile returns { registers, modules } and processResult pushes both.
ReturnFile ==
    /\ pc = "modules"
    /\ mi > Len(modNodes)
    /\ allRegisters' = allRegisters \o fileRegisters
    /\ allModules' = allModules \o fileModules
    /\ fi' = fi + 1
    /\ pc' = "files"
    /\ output' = <<>>
    /\ li' = 0
    /\ stack' = <<>>
    /\ root' = NULL
    /\ nodes' = <<>>
    /\ modNodes' = <<>>
    /\ mi' = 0
    /\ fileRegisters' = <<>>
    /\ fileModules' = <<>>
    /\ UNCHANGED <<files, analysisType, result, potentialRegisters, blockNodes, bi,
                   clockedSignals, latchSignals, ri>>
    /\ UNCHANGED cacheVars

NextExtract ==
    \/ ExecuteTool
    \/ ParseOutputLine
    \/ FindModules
    \/ ExtractCandidates
    \/ ScanBlock
    \/ WriteType
    \/ PushModule
    \/ ReturnFile
    \/ ReturnAggregate

SpecExtract == InitExtract /\ [][NextExtract]_vars

(***************************************************************************)
(* SpecParse: parseTreeStructure on arbitrary lines, one line per step.    *)
(***************************************************************************)
ParseTags == {"kA", "kB"}

ParseLeafTag == "kA"

ParseText == <<"x">>

\* Whitespace lengths: levels 0, 1, 1.5 and 2.
ParseWs == {0, 2, 3, 4}

\* Node lines, leaf lines, one leaf line of a punctuation token (its tag fails
\* the leaf pattern whatever its indentation) and one unrecognised line.
ParseLines ==
    {NodeLine(ws, t) : ws \in ParseWs, t \in ParseTags}
        \cup {LeafLine(ws, ParseLeafTag, 0, 1, ParseText) : ws \in ParseWs}
        \cup {LeafLine(2, "';'", 0, 1, <<";">>), OtherLine}

InitParse ==
    /\ pc = "parse"
    /\ IdleParse
    /\ IdleBatch
    /\ IdleExtract
    /\ IdleCache

\* The loop takes the next line of the output, whatever it is.
ParseLine(line) ==
    /\ pc = "parse"
    /\ li < MaxLines
    /\ LET st == ParseStep([stack |-> stack, root |-> root, nodes |-> nodes], line)
       IN  /\ stack' = st.stack
           /\ root' = st.root
           /\ nodes' = st.nodes
    /\ output' = Append(output, line)
    /\ li' = li + 1
    /\ UNCHANGED <<pc, files, analysisType, fi, allRegisters, allModules, result>>
    /\ UNCHANGED extractVars
    /\ UNCHANGED cacheVars

\* The output has no more lines: return root.
ParseReturn ==
    /\ pc = "parse"
    /\ pc' = "parsed"
    /\ UNCHANGED <<output, li, stack, root, nodes, files, analysisType, fi, allRegisters,
                   allModules, result>>
    /\ UNCHANGED extractVars
    /\ UNCHANGED cacheVars

NextParse ==
    \/ \E line \in ParseLines : ParseLine(line)
    \/ ParseReturn

SpecParse == InitParse /\ [][NextParse]_vars

(***************************************************************************)
(* SpecCache: CacheManager (utils/cache.ts).  get and set are async: each  *)
(* await of getFileHash is a point where the other call and a modification *)
(* of a file can run, and the continuation after the await is a step of    *)
(* its own.  One get and one set are in flight at a time.                  *)
(***************************************************************************)
\* this.cache.delete(key)
CacheDelete(c, key) == [k \in DOMAIN c \ {key} |-> c[k]]

\* this.cache.set(key, entry)
CacheSet(c, key, entry) == [k \in DOMAIN c \cup {key} |-> IF k = key THEN entry ELSE c[k]]

\* A file is written with another content.
ModifyFile(f, content) ==
    /\ content # disk[f]
    /\ disk' = [disk EXCEPT ![f] = content]
    /\ UNCHANGED <<cache, fileHashes, getCall, setCall>>
    /\ UNCHANGED analyzeVars

\* get from the dependency loop on: the next await, or the return of the data.
GetDeps(frame) ==
    IF frame.di <= Len(frame.entry.dependencies)
    THEN [frame EXCEPT !.pc = "dep"]
    ELSE [frame EXCEPT !.pc = "return", !.result = "data"]

\* get(key, filePath) up to its first await or its return.
GetStart(key) ==
    /\ getCall.pc = "idle"
    /\ getCall' =
           IF key \notin DOMAIN cache
           THEN Frame("return", key, NoEntry, 0, NoHash, NoHash, NoHashes, "null")
           ELSE LET frame == Frame("file", key, cache[key], 1, NoHash, NoHash, NoHashes,
                                   "none")
                IN  IF FileOfKey(key) # NoFile /\ frame.entry.fileHash # NoHash
                    THEN frame
                    ELSE GetDeps(frame)
    /\ UNCHANGED <<disk, cache, fileHashes, setCall>>
    /\ UNCHANGED analyzeVars

\* await this.getFileHash(filePath): the file is read.
GetReadFile ==
    /\ getCall.pc = "file"
    /\ getCall' = [getCall EXCEPT !.pc = "fileRead",
                                  !.hash = getFileHash(disk, FileOfKey(getCall.key))]
    /\ UNCHANGED <<disk, cache, fileHashes, setCall>>
    /\ UNCHANGED analyzeVars

\* currentHash !== entry.fileHash, and on to the dependencies.
GetCheckFile ==
    /\ getCall.pc = "fileRead"
    /\ IF getCall.hash # getCall.entry.fileHash
       THEN /\ cache' = CacheDelete(cache, getCall.key)
            /\ getCall' = [getCall EXCEPT !.pc = "return", !.result = "null",
                                          !.seenFile = getCall.hash]
       ELSE /\ cache' = cache
            /\ getCall' = GetDeps([getCall EXCEPT !.seenFile = getCall.hash])
    /\ UNCHANGED <<disk, fileHashes, setCall>>
    /\ UNCHANGED analyzeVars

\* await this.getFileHash(dep): the dependency is read.
GetReadDep ==
    /\ getCall.pc = "dep"
    /\ getCall' = [getCall EXCEPT !.pc = "depRead",
                                  !.hash = getFileHash(disk,
                                                       getCall.entry.dependencies[getCall.di])]
    /\ UNCHANGED <<disk, cache, fileHashes, setCall>>
    /\ UNCHANGED analyzeVars

\* cachedDepHash = this.fileHashes.get(dep); depHash !== cachedDepHash
GetCheckDep ==
    /\ getCall.pc = "depRead"
    /\ LET dep == getCall.entry.dependencies[getCall.di]
           seen == [getCall EXCEPT !.seenDeps[dep] = getCall.hash]
       IN  IF getCall.hash # fileHashes[dep]
           THEN /\ cache' = CacheDelete(cache, getCall.key)
                /\ getCall' = [seen EXCEPT !.pc = "return", !.result = "null"]
           ELSE /\ cache' = cache
                /\ getCall' = GetDeps([seen EXCEPT !.di = getCall.di + 1])
    /\ UNCHANGED <<disk, fileHashes, setCall>>
    /\ UNCHANGED analyzeVars

\* The caller of get takes the returned value.
GetReturn ==
    /\ getCall.pc = "return"
    /\ getCall' = IdleFrame
    /\ UNCHANGED <<disk, cache, fileHashes, setCall>>
    /\ UNCHANGED analyzeVars

\* set from the dependency loop on: the next await, or cache.set(key, entry).
SetDeps(frame) ==
    /\ IF frame.di <= Len(frame.entry.dependencies)
       THEN /\ setCall' = [frame EXCEPT !.pc = "dep"]
            /\ cache' = cache
       ELSE /\ setCall' = IdleFrame
            /\ cache' = CacheSet(cache, frame.key, frame.entry)

\* set(key, data, filePath, dependencies) up to its first await or its end.
SetStart(key, dependencies) ==
    /\ setCall.pc = "idle"
    /\ LET frame == Frame("file", key, CacheEntry(NoHash, dependencies, NoHashes), 1,
                          NoHash, NoHash, NoHashes, "none")
       IN  IF FileOfKey(key) # NoFile
           THEN /\ setCall' = frame
                /\ cache' = cache
           ELSE SetDeps(frame)
    /\ UNCHANGED <<disk, fileHashes, getCall>>
    /\ UNCHANGED analyzeVars

\* await this.getFileHash(filePath): the file is read.
SetReadFile ==
    /\ setCall.pc = "file"
    /\ setCall' = [setCall EXCEPT !.pc = "fileRead",
                                  !.hash = getFileHash(disk, FileOfKey(setCall.key))]
    /\ UNCHANGED <<disk, cache, fileHashes, getCall>>
    /\ UNCHANGED analyzeVars

\* entry.fileHash = the hash read, and on to the dependencies.
SetFileHash ==
    /\ setCall.pc = "fileRead"
    /\ SetDeps([setCall EXCEPT !.entry.fileHash = setCall.hash,
                               !.seenFile = setCall.hash])
    /\ UNCHANGED <<disk, fileHashes, getCall>>
    /\ UNCHANGED analyzeVars

\* await this.getFileHash(dep): the dependency is read.
SetReadDep ==
    /\ setCall.pc = "dep"
    /\ setCall' = [setCall EXCEPT !.pc = "depRead",
                                  !.hash = getFileHash(disk,
                                                       setCall.entry.dependencies[setCall.di])]
    /\ UNCHANGED <<disk, cache, fileHashes, getCall>>
    /\ UNCHANGED analyzeVars

\* this.fileHashes.set(dep, hash), and the next dependency or cache.set.
SetDepHash ==
    /\ setCall.pc = "depRead"
    /\ LET dep == setCall.entry.dependencies[setCall.di]
       IN  /\ fileHashes' = [fileHashes EXCEPT ![dep] = setCall.hash]
           /\ SetDeps([setCall EXCEPT !.entry.hashesAtSet[dep] = setCall.hash,
                                      !.seenDeps[dep] = setCall.hash,
                                      !.di = setCall.di + 1])
    /\ UNCHANGED <<disk, getCall>>
    /\ UNCHANGED analyzeVars

InitCache ==
    /\ pc = "cache"
    /\ IdleParse
    /\ IdleBatch
    /\ IdleExtract
    /\ IdleCache

NextCache ==
    \/ \E f \in CacheFiles, content \in Contents : ModifyFile(f, content)
    \/ \E key \in CacheKeys : GetStart(key)
    \/ GetReadFile
    \/ GetCheckFile
    \/ GetReadDep
    \/ GetCheckDep
    \/ GetReturn
    \/ \E key \in CacheKeys, dependencies \in DepLists : SetStart(key, dependencies)
    \/ SetReadFile
    \/ SetFileHash
    \/ SetReadDep
    \/ SetDepHash

SpecCache == InitCache /\ [][NextCache]_vars

(***************************************************************************)
(* Properties.  The files of Spec and SpecDecl are descriptions of their   *)
(* source text, so a property can say what the source declares and         *)
(* assigns and compare it with what the analysis returned.                 *)
(***************************************************************************)
EdgeTriggers == {"posedge", "negedge"}

LevelTriggers == {"level", "none"}

\* processResult has returned the aggregate of its files.
Returned == pc = "done" /\ analysisType \in {"registers", "all"} /\ result.success

\* The module of the source that declares the register.
ModuleOf(reg) ==
    LET file == files[CHOOSE k \in 1..Len(files) : files[k].path = reg.file]
    IN  file.src[CHOOSE j \in 1..Len(file.src) : file.src[j].name = reg.module]

\* The module has a block with one of the triggers that assigns the name.
AssignedIn(mod, name, triggers) ==
    \E i \in 1..Len(mod.blocks) :
        /\ mod.blocks[i].trigger \in triggers
        /\ \E j \in 1..Len(mod.blocks[i].targets) : mod.blocks[i].targets[j] = name

Max(S) == CHOOSE x \in S : \A y \in S : y <= x

\* C1: a register assigned in an edge-triggered block of its module is
\* returned as flip_flop, whatever level-sensitive blocks assign it too and
\* wherever they stand among the blocks.
C1_ClassificationPrecedence ==
    Returned =>
        \A i \in 1..Len(result.registers) :
            LET reg == result.registers[i]
            IN  AssignedIn(ModuleOf(reg), reg.name, EdgeTriggers) => reg.type = "flip_flop"

\* C1: a returned flip_flop that a level-sensitive first block and an
\* edge-triggered second block both assign.
C1_Witness ==
    /\ Returned
    /\ \E i \in 1..Len(result.registers) :
        LET reg == result.registers[i]
            mod == ModuleOf(reg)
        IN  /\ Len(mod.blocks) = 2
            /\ mod.blocks[1].trigger = "level"
            /\ mod.blocks[2].trigger = "posedge"
            /\ AssignedIn(mod, reg.name, {"level"})
            /\ AssignedIn(mod, reg.name, {"posedge"})
            /\ reg.type = "flip_flop"

C3_LatchClassification ==
    Returned =>
        \A i \in 1..Len(result.registers) :
            LET reg == result.registers[i]
                mod == ModuleOf(reg)
            IN  (AssignedIn(mod, reg.name, LevelTriggers) /\ ~AssignedIn(mod, reg.name, EdgeTriggers))
                    => reg.type = "latch"

\* C3: a returned latch assigned under always @(c), next to a register that a
\* posedge block assigns.
C3_Witness ==
    /\ Returned
    /\ \E i \in 1..Len(result.registers) :
        LET reg == result.registers[i]
            mod == ModuleOf(reg)
        IN  /\ AssignedIn(mod, reg.name, {"level"})
            /\ ~AssignedIn(mod, reg.name, EdgeTriggers)
            /\ \E name \in {SigR, SigS} : name # reg.name /\ AssignedIn(mod, name, {"posedge"})
            /\ reg.type = "latch"

\* The packed dimension of the one declaration of a file of SpecDecl.
DeclaredDim(file) ==
    LET mod == file.src[1]
    IN  IF mod.decls # <<>> THEN mod.decls[1].dim ELSE mod.ports[1].dim

Distance(a, b) == IF a < b THEN b - a ELSE a - b

C5_WidthAtLeastOne ==
    \A i \in 1..Len(allRegisters) : JsGe(allRegisters[i].width, 1)

RECURSIVE SumWidths(_)
SumWidths(regs) ==
    IF regs = <<>> THEN Num(0) ELSE JsAdd(SumWidths(Front(regs)), Last(regs).width)

CountOf(byType, type) == IF type \in DOMAIN byType THEN byType[type] ELSE 0

Doubles(twice, once) ==
    /\ twice.success
    /\ twice.totalRegisters = 2 * once.totalRegisters
    /\ twice.totalBits = JsAdd(once.totalBits, once.totalBits)
    /\ DOMAIN twice.byType = DOMAIN once.byType
    /\ \A t \in DOMAIN once.byType : twice.byType[t] = 2 * once.byType[t]
    /\ DOMAIN twice.byModule = DOMAIN once.byModule
    /\ \A m \in DOMAIN once.byModule : Len(twice.byModule[m]) = 2 * Len(once.byModule[m])
    /\ Len(twice.modules) = 2 * Len(once.modules)

FirstHalf(s) == SubSeq(s, 1, Len(s) \div 2)

\* Two files with the same text.
SameText(f, g) == f.src = g.src /\ f.tool = g.tool /\ f.readable = g.readable

\* C7: the aggregate of a returned result's registers and modules taken twice
\* doubles every count; the result of a batch of two files with the same text
\* is the double of the aggregate of the first file's part, the second part
\* being the first under the other path; and an empty per-file result on
\* either side changes nothing.
C7_Aggregation ==
    Returned =>
        /\ Doubles(Aggregate(result.registers \o result.registers,
                             result.modules \o result.modules), result)
        /\ (Len(files) = 2 /\ SameText(files[1], files[2])) =>
                /\ Len(allRegisters) = 2 * Len(FirstHalf(allRegisters))
                /\ \A i \in 1..Len(FirstHalf(allRegisters)) :
                        allRegisters[Len(FirstHalf(allRegisters)) + i]
                            = [allRegisters[i] EXCEPT !.file = files[2].path]
                /\ Doubles(result, Aggregate(FirstHalf(allRegisters), FirstHalf(allModules)))
        /\ Aggregate(result.registers \o NoFileResult.registers,
                     result.modules \o NoFileResult.modules) = result
        /\ Aggregate(NoFileResult.registers \o result.registers,
                     NoFileResult.modules \o result.modules) = result

\* C7: two files with the same text, a flip-flop of width 8, in one batch:
\* two registers, 16 bits, two flip_flops.
C7_Witness ==
    /\ Returned
    /\ Len(files) = 2
    /\ SameText(files[1], files[2])
    /\ result.totalRegisters = 2
    /\ result.totalBits = Num(16)
    /\ result.byType = [t \in {"flip_flop"} |-> 2]
    /\ Len(result.modules) = 2

\* The analysis of the file fails: the tool exits with an error or times
\* out, no root was read from its output, or the file cannot be read.
FileFails(file, rootRef) ==
    file.tool \in {"error", "timeout"} \/ rootRef = NULL \/ ~file.readable

\* C8: the step that ends the iteration of a failing file leaves the
\* registers and modules collected so far, and so their aggregate, as they
\* were; the returned result is the aggregate of what the other files
\* contributed, and it is a success unless a contributed register makes the
\* grouping throw.
C8_FailureIsolation ==
    /\ [][(fi' = fi + 1 /\ FileFails(files[fi], root)) =>
            /\ allRegisters' = allRegisters
            /\ allModules' = allModules
            /\ Aggregate(allRegisters', allModules') = Aggregate(allRegisters, allModules)]_vars
    /\ []((pc = "done" /\ analysisType \in {"registers", "all"}) =>
            /\ result = Aggregate(allRegisters, allModules)
            /\ result.success <=>
                    \A i \in 1..Len(allRegisters) :
                        allRegisters[i].module \notin ObjectPrototypeNames)

\* C8: a batch of a good file and a file the tool rejects has returned the
\* good file's register.
C8_Witness ==
    /\ Returned
    /\ Len(files) = 2
    /\ ~FileFails(files[1], 1)
    /\ files[2].tool = "error"
    /\ result.totalRegisters = 1
    /\ Len(result.modules) = 1

\* C9: parseTreeStructure returns null exactly when no line of the output
\* matches the node pattern.
C9_NullRootIffNoNodeLine ==
    pc = "parsed" => (root = NULL <=> \A i \in 1..Len(output) : ~nodeMatch(output[i]))

\* C9: null has been returned for an output of leaf lines and unrecognised
\* lines.
C9_Witness ==
    /\ pc = "parsed"
    /\ root = NULL
    /\ \E i \in 1..Len(output) : leafMatch(output[i])
    /\ \E i \in 1..Len(output) : output[i] = OtherLine

\* The lines of the output that one of the two patterns matches.
Recognised == SelectSeq(output, LAMBDA l : nodeMatch(l) \/ leafMatch(l))

Level(line) == line.ws \div 2

\* The node lines before line i, and those one level above it.
NodeLinesBefore(lines, i) == {j \in 1..(i - 1) : nodeMatch(lines[j])}

ParentLines(lines, i) ==
    {j \in NodeLinesBefore(lines, i) : Level(lines[j]) = Level(lines[i]) - 1}

\* One node line at level 0, the first; every later line at a whole level
\* from 1 to one more than the level of the node line before it.
WellFormed(lines) ==
    /\ lines # <<>>
    /\ nodeMatch(lines[1])
    /\ lines[1].ws = 0
    /\ \A i \in 2..Len(lines) :
        /\ lines[i].ws % 2 = 0
        /\ Level(lines[i]) >= 1
        /\ Level(lines[i]) <= Level(lines[Max(NodeLinesBefore(lines, i))]) + 1

\* The lines are the pre-order print of a tree: well-formed, and no line is
\* deeper than a leaf line just before it.
PreOrderDump(lines) ==
    /\ WellFormed(lines)
    /\ \A i \in 2..Len(lines) :
            leafMatch(lines[i - 1]) /\ ~nodeMatch(lines[i - 1])
                => Level(lines[i]) <= Level(lines[i - 1])

RECURSIVE PreOrder(_, _)
RECURSIVE PreOrderOfChildren(_, _)
PreOrder(T, n) ==
    <<n>> \o (IF T[n].isNode THEN PreOrderOfChildren(T, T[n].children) ELSE <<>>)

PreOrderOfChildren(T, ch) ==
    IF ch = <<>> THEN <<>> ELSE PreOrder(T, Head(ch)) \o PreOrderOfChildren(T, Tail(ch))

\* The k-th object is the k-th line, its parent is the nearest node line
\* before it one level above, the children of every node are in line order,
\* and the pre-order walk from the root gives the lines in their order.
TreeShape(lines) ==
    LET n == Len(lines)
    IN  /\ root = 1
        /\ Len(nodes) = n
        /\ \A k \in 1..n :
            /\ nodes[k].tag = lines[k].tag
            /\ nodes[k].isNode = nodeMatch(lines[k])
            /\ \A a, b \in 1..Len(nodes[k].children) :
                    a < b => nodes[k].children[a] < nodes[k].children[b]
        /\ \A k \in 2..n :
            /\ ParentLines(lines, k) # {}
            /\ \A p \in 1..n :
                    (\E a \in 1..Len(nodes[p].children) : nodes[p].children[a] = k)
                        <=> p = Max(ParentLines(lines, k))
        /\ PreOrder(nodes, root) = [k \in 1..n |-> k]

\* C10: when the recognised lines of the output are the pre-order print of a
\* tree (well-formed, and no line deeper than a leaf line just before it),
\* the tree read from them has the shape of the lines: parents, order of the
\* children and pre-order walk.
C10_RoundTripShape ==
    (pc = "parsed" /\ PreOrderDump(Recognised)) => TreeShape(Recognised)

\* C10 as stated: the same shape for every well-formed output, where a line
\* may be one level deeper than the node line before it even when a
\* shallower leaf line stands between the two.
C10_RoundTripShapeAsStated ==
    (pc = "parsed" /\ WellFormed(Recognised)) => TreeShape(Recognised)

\* C10: the pre-order print of a tree of four lines has been read: a root
\* with two children, the first of them with a child of its own.
C10_Witness ==
    /\ pc = "parsed"
    /\ PreOrderDump(Recognised)
    /\ Len(Recognised) = 4
    /\ Len(nodes[1].children) = 2
    /\ Len(nodes[2].children) = 1

(***************************************************************************)
(* Properties of the extraction of a file (SpecExtract).                   *)
(***************************************************************************)
IsPrefix(s, t) == Len(s) <= Len(t) /\ SubSeq(t, 1, Len(s)) = s

\* The step creates the candidates of a module: all of them are provisional.
CreatedProvisional ==
    (pc = "modules" /\ pc' = "blocks")
        => \A i \in 1..Len(potentialRegisters') :
               potentialRegisters'[i].type = "potential_register"

\* While a module is refined its candidates stay, and the only change to one is
\* the write of the type to the register the second loop is at, after the
\* first loop has taken every block.
WrittenByClassifierOnly ==
    (pc = "blocks" /\ pc' = "blocks")
        => /\ Len(potentialRegisters') = Len(potentialRegisters)
           /\ ri' >= ri
           /\ \A i \in 1..Len(potentialRegisters) :
                  potentialRegisters'[i] # potentialRegisters[i]
                      => /\ i = ri
                         /\ ri' = ri + 1
                         /\ bi > Len(blockNodes)
                         /\ potentialRegisters[i].type = "potential_register"
                         /\ potentialRegisters'[i] =
                                [potentialRegisters[i] EXCEPT
                                    !.type = potentialRegisters'[i].type]

\* The module's candidates leave refineRegisters all written, and go to the
\* file's result as they are.
PushedWritten ==
    (pc = "blocks" /\ pc' = "modules")
        => /\ \A i \in 1..Len(potentialRegisters) :
                  potentialRegisters[i].type \in {"flip_flop", "latch"}
           /\ fileRegisters' = fileRegisters \o potentialRegisters

\* What is in the file's result, or in the merged sequence, stays as it is; a
\* file's result goes to the merged sequence as it is.
NeverRemoved ==
    /\ (pc = "modules" /\ pc' = "files") => allRegisters' = allRegisters \o fileRegisters
    /\ (pc' # "files" \/ pc # "modules") => IsPrefix(fileRegisters, fileRegisters')
    /\ IsPrefix(allRegisters, allRegisters')

LifecycleStep ==
    CreatedProvisional /\ WrittenByClassifierOnly /\ PushedWritten /\ NeverRemoved

\* C11: every candidate created for a module starts as potential_register,
\* has its type written exactly once, by the second loop of refineRegisters
\* after the first loop has scanned all the module's always blocks, is not
\* written again, is not removed from the file's result or the merged
\* sequence, and is in the result processResult returns.
C11_CandidateLifecycle ==
    /\ [][LifecycleStep]_vars
    /\ [](pc = "done" => result.success /\ result.registers = allRegisters)

\* analyzeFile has taken every module of the file: fileRegisters and
\* fileModules are the file's result.
FileResultComplete == pc = "modules" /\ mi > Len(modNodes)

\* The byte offsets at which the source declares reg: the SymbolIdentifier
\* leaves with its name that are the name of a variable declarator or stand in
\* a port declaration, inside a module declaration of the candidate's module
\* name.
DeclarationOffsets(T, reg) ==
    {T[l].start : l \in
        {l \in 1..Len(T) :
            /\ ~T[l].isNode
            /\ T[l].tag = "SymbolIdentifier"
            /\ T[l].text = reg.name
            /\ \E d \in 1..Len(T) :
                   /\ T[d].isNode
                   /\ T[d].tag \in {"kRegisterVariable", "kPortDeclaration"}
                   /\ l \in SeqToSet(getAllLeaves(T, d))
            /\ \E m \in 1..Len(T) :
                   /\ T[m].isNode
                   /\ T[m].tag = "kModuleDeclaration"
                   /\ getModuleName(T, m) = reg.module
                   /\ l \in SeqToSet(getAllLeaves(T, m))}}

\* The references of seq are in pre-order: objects are created in the order
\* of their lines, so a reference is a pre-order position.
InPreOrder(seq) == \A i, j \in 1..Len(seq) : i < j => seq[i] < seq[j]

NamedModules(T, moduleNodes) == SelectSeq(moduleNodes, LAMBDA m : getModuleName(T, m) # <<>>)

\* C12: in a file's result the module summaries are in pre-order of their
\* module declarations and the candidates are in the order of their
\* declarations in the file, output ports of the header before the data
\* declarations of the body.
C12_FileDeclarationOrder ==
    FileResultComplete =>
        /\ InPreOrder(modNodes)
        /\ Len(fileModules) = Len(NamedModules(nodes, modNodes))
        /\ \A k \in 1..Len(fileModules) :
               fileModules[k].name = getModuleName(nodes, NamedModules(nodes, modNodes)[k])
        /\ \A i, j \in 1..Len(fileRegisters) :
               i < j => \E a \in DeclarationOffsets(nodes, fileRegisters[i]),
                           b \in DeclarationOffsets(nodes, fileRegisters[j]) : a <= b

\* The variable declarators of the reg and logic declarations of the tree that
\* stand inside a module declaration with a name.
RegDeclarators(T) ==
    {d \in 1..Len(T) :
        /\ T[d].isNode
        /\ T[d].tag = "kRegisterVariable"
        /\ \E l \in SeqToSet(getAllLeaves(T, d)) : T[l].tag = "SymbolIdentifier"
        /\ \E dd \in 1..Len(T) :
               /\ T[dd].isNode
               /\ T[dd].tag = "kDataDeclaration"
               /\ d \in SeqToSet(findNodesByTag(T, dd, "kRegisterVariable"))
               /\ FirstType(T, getAllLeaves(T, dd)) \in {kw_reg, kw_logic}
        /\ \E m \in 1..Len(T) :
               /\ T[m].isNode
               /\ T[m].tag = "kModuleDeclaration"
               /\ getModuleName(T, m) # <<>>
               /\ d \in SeqToSet(findNodesByTag(T, m, "kRegisterVariable"))}

\* The candidates of regs that the declarator d gave rise to: they have the
\* name of its identifier leaf and the line of that leaf.
CandidatesOf(T, d, regs, content) ==
    LET named == SelectSeq(getAllLeaves(T, d), LAMBDA l : T[l].tag = "SymbolIdentifier")
    IN  {i \in 1..Len(regs) :
            /\ regs[i].name = T[named[1]].text
            /\ regs[i].line = getLineNumber(content, T[named[1]].start)}

ModuleNames(T) ==
    {getModuleName(T, m) : m \in {m \in 1..Len(T) : T[m].isNode /\ T[m].tag = "kModuleDeclaration"}}

\* C13: in a file's result every reg or logic variable declarator of the tree
\* has exactly one candidate, and every candidate has the file's path and the
\* name of a module of the file, also when a module is declared inside
\* another.
C13_OneCandidatePerDeclarator ==
    FileResultComplete =>
        /\ \A d \in RegDeclarators(nodes) :
               Cardinality(CandidatesOf(nodes, d, fileRegisters,
                                        SourceContent(files[fi].src))) = 1
        /\ \A i \in 1..Len(fileRegisters) :
               /\ fileRegisters[i].file = files[fi].path
               /\ fileRegisters[i].module \in ModuleNames(nodes) \ {<<>>}

Owned(regs, name, file) ==
    Cardinality({i \in 1..Len(regs) : regs[i].module = name /\ regs[i].file = file})

RECURSIVE SumCounts(_, _, _)
SumCounts(mods, name, file) ==
    IF mods = <<>> THEN 0
    ELSE SumCounts(Front(mods), name, file)
             + (IF Last(mods).name = name /\ Last(mods).file = file
                THEN Last(mods).registerCount ELSE 0)

\* Every summary counts the candidates of its name and file.
CountsByName(regs, mods) ==
    \A k \in 1..Len(mods) : mods[k].registerCount = Owned(regs, mods[k].name, mods[k].file)

\* The summaries of one name and file count, together, the candidates of that
\* name and file.
CountsAddUp(regs, mods) ==
    \A k \in 1..Len(mods) :
        SumCounts(mods, mods[k].name, mods[k].file) = Owned(regs, mods[k].name, mods[k].file)

\* A summary is pushed with the number of candidates pushed with it, and the
\* summaries pushed before stay as they are, in the file's result and in the
\* merged one.
CountFixed ==
    /\ (pc = "blocks" /\ pc' = "modules")
           => /\ Len(fileModules') = Len(fileModules) + 1
              /\ Last(fileModules').registerCount = Len(fileRegisters') - Len(fileRegisters)
    /\ (pc' # "files" \/ pc # "modules") => IsPrefix(fileModules, fileModules')
    /\ (pc = "modules" /\ pc' = "files") => allModules' = allModules \o fileModules
    /\ IsPrefix(allModules, allModules')
    /\ (pc' = "done" /\ result'.success) => result'.modules = allModules

\* C14 as stated: in the file's result, the merged sequences and the returned
\* result every summary's registerCount is the number of candidates with its
\* name and file, and a pushed summary does not change.
C14_RegisterCountAsStated ==
    /\ [][CountFixed]_vars
    /\ [](/\ CountsByName(fileRegisters, fileModules)
          /\ CountsByName(allRegisters, allModules)
          /\ (pc = "done" /\ result.success)
                 => CountsByName(result.registers, result.modules))

\* C14: in the file's result, the merged sequences and the returned result
\* the registerCounts of the summaries of one name and file add up to the
\* number of candidates with that module and file; a summary is pushed with
\* the number of candidates its module's extraction pushed, and a pushed
\* summary does not change.
C14_RegisterCount ==
    /\ [][CountFixed]_vars
    /\ [](/\ CountsAddUp(fileRegisters, fileModules)
          /\ CountsAddUp(allRegisters, allModules)
          /\ (pc = "done" /\ result.success)
                 => CountsAddUp(result.registers, result.modules))

\* A returned result of two files with two summaries of one name and file,
\* and a summary that counts a nested module's register.
C14_Witness ==
    /\ pc = "done"
    /\ result.success
    /\ Len(files) = 2
    /\ \E k, l \in 1..Len(result.modules) :
           /\ k < l
           /\ result.modules[k].name = result.modules[l].name
           /\ result.modules[k].file = result.modules[l].file
           /\ result.modules[k].registerCount > 0
           /\ result.modules[l].registerCount > 0
    /\ \E k \in 1..Len(result.modules) :
           /\ result.modules[k].file = "nest.v"
           /\ result.modules[k].registerCount = 2

(***************************************************************************)
(* Properties of the loop over the files (Spec).                           *)
(***************************************************************************)
\* The elements of a set of numbers in increasing order.
Sorted(S) == [i \in 1..Cardinality(S) |-> CHOOSE x \in S : Cardinality({y \in S : y < x}) = i - 1]

\* The tree of a pre-order dump, said without the loop: the k-th object is the
\* k-th recognised line, and the children of a node line are the lines whose
\* nearest node line one level above is that line, in their order.
TreeOfDump(lines) ==
    LET rec == SelectSeq(lines, LAMBDA l : nodeMatch(l) \/ leafMatch(l))
        parent == [j \in 1..Len(rec) |->
                      IF ParentLines(rec, j) = {} THEN 0 ELSE Max(ParentLines(rec, j))]
    IN  IF parent = <<>> THEN <<>>
        ELSE [k \in 1..Len(rec) |->
                 IF nodeMatch(rec[k])
                 THEN [SyntaxNode(rec[k].tag) EXCEPT
                           !.children = Sorted({j \in 1..Len(rec) : parent[j] = k})]
                 ELSE SyntaxLeaf(rec[k].tag, rec[k].start, rec[k].end, rec[k].text)]

\* What analyzeFile returns for the file, computed from the file alone.
Contribution(file) ==
    IF RunFailed(Execute(file)) THEN NoFileResult
    ELSE LET T == TreeOfDump(Execute(file).stdout)
         IN  ExtractFile(T, IF T = <<>> THEN NULL ELSE 1,
                         file.path, file.readable, SourceContent(file.src))

RECURSIVE Contributions(_, _)
Contributions(fs, k) ==
    IF k = 0 THEN NoFileResult
    ELSE [registers |-> Contributions(fs, k - 1).registers \o Contribution(fs[k]).registers,
          modules |-> Contributions(fs, k - 1).modules \o Contribution(fs[k]).modules]

\* C15: the tree extraction reads is built from the output of the file alone;
\* between two files the merged sequences are the concatenation, in file-list
\* order, of what each file taken so far gives when it is computed from that
\* file alone, whatever the other files of the batch and its position; and
\* the returned registers and modules are that concatenation over the batch.
C15_NoCrossFileState ==
    /\ (pc = "lines" /\ li = Len(output))
           => /\ nodes = TreeOfDump(output)
              /\ root = (IF nodes = <<>> THEN NULL ELSE 1)
    /\ (pc = "files" /\ analysisType \in {"registers", "all"})
           => /\ allRegisters = Contributions(files, fi - 1).registers
              /\ allModules = Contributions(files, fi - 1).modules
    /\ Returned
           => /\ result.registers = Contributions(files, Len(files)).registers
              /\ result.modules = Contributions(files, Len(files)).modules

\* C15: a batch of two files that both give registers and modules has been
\* returned, the first file giving more than one register.
C15_Witness ==
    /\ Returned
    /\ Len(files) = 2
    /\ Len(Contribution(files[1]).registers) > 1
    /\ Contribution(files[2]).registers # <<>>
    /\ Contribution(files[1]).modules # <<>>
    /\ Contribution(files[2]).modules # <<>>
    /\ Contribution(files[1]).registers[1].width # Contribution(files[2]).registers[1].width

(***************************************************************************)
(* Properties of one iteration of parseTreeStructure's loop (SpecParse).   *)
(***************************************************************************)
Matched(line) == nodeMatch(line) \/ leafMatch(line)

\* The step is one iteration of the loop; the line it takes and the
\* reference of the object it creates for a matched line.
LineTaken == pc = "parse" /\ li' = li + 1

TakenLine == output'[li']

NewRef == Len(nodes) + 1

\* Every object there was is as it was, but for the one entry more in the
\* children of parent.
AttachedTo(parent) ==
    /\ Len(nodes') = Len(nodes) + 1
    /\ nodes'[parent] =
           [nodes[parent] EXCEPT !.children = Append(nodes[parent].children, NewRef)]
    /\ \A k \in 1..Len(nodes) : k # parent => nodes'[k] = nodes[k]

\* The new object is in nobody's children.
AttachedToNobody ==
    /\ Len(nodes') = Len(nodes) + 1
    /\ \A k \in 1..Len(nodes) : nodes'[k] = nodes[k]

\* No entry has left the stack: a node line adds its node, a leaf line nothing.
NothingPopped ==
    stack' = (IF nodeMatch(TakenLine) THEN Append(stack, NewRef) ELSE stack)

\* The line is deeper than the stack is long (a level of 1.5 included).
OverDeep == LineTaken /\ Matched(TakenLine) /\ TakenLine.ws > 2 * Len(stack)

\* C16 as stated: a node or leaf line whose indentation level is greater than
\* the stack length is attached as a child of the stack top, and no stack
\* entry is popped.
C16_OverDeepClampedAsStated ==
    [][OverDeep => stack # <<>> /\ AttachedTo(Last(stack)) /\ NothingPopped]_vars

\* C16: a node or leaf line whose indentation level is greater than the stack
\* length is taken exactly as the same line at the level equal to the stack
\* length, and no stack entry is popped; with a stack that is not empty it is
\* attached as the last child of the stack top and the root stays; with an
\* empty stack a node line becomes the root and a leaf line is attached to
\* nobody and leaves the root as it was.
C16_OverDeepClamped ==
    [][OverDeep =>
          /\ [stack |-> stack', root |-> root', nodes |-> nodes'] =
                 ParseStep([stack |-> stack, root |-> root, nodes |-> nodes],
                           [TakenLine EXCEPT !.ws = 2 * Len(stack)])
          /\ NothingPopped
          /\ nodes'[NewRef] = (IF nodeMatch(TakenLine) THEN SyntaxNode(TakenLine.tag)
                               ELSE SyntaxLeaf(TakenLine.tag, TakenLine.start,
                                               TakenLine.end, TakenLine.text))
          /\ stack # <<>> => AttachedTo(Last(stack)) /\ root' = root
          /\ stack = <<>> => /\ AttachedToNobody
                             /\ root' = (IF nodeMatch(TakenLine) THEN NewRef ELSE root)]_vars

\* C16: a leaf line at level 1.5 and a node line at level 2 have been taken
\* with one node on the stack, and are its children.
C16_Witness ==
    /\ li = 3
    /\ nodeMatch(output[1])
    /\ leafMatch(output[2]) /\ output[2].ws = 3
    /\ nodeMatch(output[3]) /\ output[3].ws = 4
    /\ nodes[1].children = <<2, 3>>
    /\ stack = <<1, 3>>

\* The references of the leaf lines, and those of them in the returned tree.
LeafRefs == {k \in 1..Len(nodes) : ~nodes[k].isNode}

InTree == IF root = NULL THEN {} ELSE SeqToSet(PreOrder(nodes, root))

\* No reference on the stack is the reference of a leaf.
LeafNeverPushed == \A i \in 1..Len(stack) : nodes[stack[i]].isNode

LeafTaken == LineTaken /\ leafMatch(TakenLine)

\* C17 as stated: every leaf line is appended as a child of the node on top
\* of the stack after the stack has been popped down to the level of the
\* line, no leaf is ever pushed, and every leaf line of the output is in the
\* tree returned.
C17_LeafAppendedAsStated ==
    /\ [][LeafTaken => /\ PopWhile(stack, TakenLine.ws) # <<>>
                       /\ stack' = PopWhile(stack, TakenLine.ws)
                       /\ AttachedTo(Last(stack'))]_vars
    /\ [](LeafNeverPushed)
    /\ [](pc = "parsed" => LeafRefs \subseteq InTree)

\* C17: the stack is popped down to the level of a leaf line, and the leaf is
\* appended as the last child of the node then on top when there is one and
\* attached to nobody when the stack is empty; the root stays and no leaf is
\* ever pushed; a leaf line is in the tree returned exactly when it comes
\* after the last node line that found the stack empty and no leaf line at
\* level 0 stands between the two or is the line itself; so every leaf line
\* is in the tree when the first matched line is a node line and every other
\* matched line is at level 1 or deeper.
C17_LeafAppended ==
    /\ [][LeafTaken => /\ stack' = PopWhile(stack, TakenLine.ws)
                       /\ root' = root
                       /\ nodes'[NewRef] = SyntaxLeaf(TakenLine.tag, TakenLine.start,
                                                      TakenLine.end, TakenLine.text)
                       /\ IF stack' # <<>> THEN AttachedTo(Last(stack'))
                          ELSE AttachedToNobody]_vars
    /\ [](LeafNeverPushed)
    /\ [](pc = "parsed" =>
             /\ \A k \in LeafRefs :
                    k \in InTree <=>
                        /\ root # NULL
                        /\ k > root
                        /\ \A j \in (root + 1)..k :
                               nodes[j].isNode \/ Recognised[j].ws >= 2
             /\ (/\ Recognised # <<>>
                 /\ nodeMatch(Recognised[1])
                 /\ \A j \in 2..Len(Recognised) : Recognised[j].ws >= 2)
                    => LeafRefs \subseteq InTree)

\* C17: two leaf lines have been read, one as the child of a child of the
\* root and one after that child has been popped, and both are in the tree
\* returned.
C17_Witness ==
    /\ pc = "parsed"
    /\ Len(Recognised) = 4
    /\ nodeMatch(Recognised[1])
    /\ nodes[1].children = <<2, 4>>
    /\ nodes[2].isNode
    /\ nodes[2].children = <<3>>
    /\ LeafRefs = {3, 4}
    /\ LeafRefs \subseteq InTree

\* What the loop has built after the first k of the lines.
RECURSIVE ParseAll(_, _)
ParseAll(lines, k) ==
    IF k = 0 THEN [stack |-> <<>>, root |-> NULL, nodes |-> <<>>]
    ELSE ParseStep(ParseAll(lines, k - 1), lines[k])

\* C18: a line that neither pattern matches leaves the stack, the root and
\* every object with its children as they were; and what has been built from
\* the lines taken so far is what the loop builds from the matched lines
\* among them alone, wherever the other lines stand.
C18_UnmatchedLineSkipped ==
    /\ [][(LineTaken /\ ~Matched(TakenLine)) => UNCHANGED <<stack, root, nodes>>]_vars
    /\ []([stack |-> stack, root |-> root, nodes |-> nodes] =
              ParseAll(Recognised, Len(Recognised)))

\* C18: a tree of a root with a leaf has been returned for an output with an
\* unmatched line before the root's line and a punctuation leaf line, which
\* the leaf pattern does not match, between the two matched lines.
C18_Witness ==
    /\ pc = "parsed"
    /\ Len(output) = 4
    /\ output[1] = OtherLine
    /\ nodeMatch(output[2])
    /\ output[3].head = "Leaf" /\ ~leafMatch(output[3])
    /\ leafMatch(output[4])
    /\ root = 1
    /\ nodes[1].children = <<2>>

(***************************************************************************)
(* Properties of the tree queries, on every tree parseTreeStructure builds *)
(* (SpecParse).                                                            *)
(***************************************************************************)
\* The objects of the subtree rooted at n, n itself included.
RECURSIVE Subtree(_, _)
Subtree(T, n) == {n} \cup UNION {Subtree(T, c) : c \in SeqToSet(T[n].children)}

\* The tags asked for: those of the lines, and one no line has.
QueryTags == ParseTags \cup {"kC"}

\* C19: for every object of a tree and every tag, findNodesByTag returns the
\* interior nodes of the subtree rooted at the object, itself included, that
\* carry the tag: all of them, each once, in pre-order, which is the order of
\* their lines; it returns no leaf, whatever tag the leaf carries; and
\* findFirstNodeByTag returns the first element of that sequence, or null
\* when the sequence is empty.
C19_FindByTag ==
    \A n \in 1..Len(nodes) : \A tag \in QueryTags :
        LET found == findNodesByTag(nodes, n, tag)
            tagged == {k \in Subtree(nodes, n) : nodes[k].isNode /\ nodes[k].tag = tag}
        IN  /\ SeqToSet(found) = tagged
            /\ Len(found) = Cardinality(tagged)
            /\ found = SelectSeq(PreOrder(nodes, n),
                                 LAMBDA k : nodes[k].isNode /\ nodes[k].tag = tag)
            /\ found = Sorted(tagged)
            /\ \A i \in 1..Len(found) : nodes[found[i]].isNode
            /\ findFirstNodeByTag(nodes, n, tag) =
                   (IF found = <<>> THEN NULL ELSE found[1])

\* C19: a tree has been returned whose root and one deeper node carry the tag
\* a leaf of the tree carries too, with a node of the other tag below the
\* root; the two nodes are found, the leaf is not.
C19_Witness ==
    /\ pc = "parsed"
    /\ root # NULL
    /\ Len(findNodesByTag(nodes, root, ParseLeafTag)) = 2
    /\ findFirstNodeByTag(nodes, root, ParseLeafTag) = root
    /\ \E k \in Subtree(nodes, root) : ~nodes[k].isNode /\ nodes[k].tag = ParseLeafTag
    /\ findFirstNodeByTag(nodes, root, "kB") \notin {NULL, root}
    /\ findFirstNodeByTag(nodes, root, "kC") = NULL

\* C20: for every object of a tree, getAllLeaves returns the leaves of the
\* subtree rooted at the object: all of them, each once, in the order of the
\* pre-order walk, which is the order of their lines in the output; it
\* returns no interior node, with or without children; and the leaves of a
\* leaf are the leaf itself.
C20_AllLeaves ==
    \A n \in 1..Len(nodes) :
        LET leaves == getAllLeaves(nodes, n)
            below == {k \in Subtree(nodes, n) : ~nodes[k].isNode}
        IN  /\ SeqToSet(leaves) = below
            /\ Len(leaves) = Cardinality(below)
            /\ leaves = SelectSeq(PreOrder(nodes, n), LAMBDA k : ~nodes[k].isNode)
            /\ leaves = Sorted(below)
            /\ \A i \in 1..Len(leaves) :
                   /\ ~nodes[leaves[i]].isNode
                   /\ leafMatch(Recognised[leaves[i]])
            /\ ~nodes[n].isNode => leaves = <<n>>

\* C20: a tree has been returned whose root has a leaf, then a node without
\* children, then a second leaf; the two leaves are returned in the order of
\* their lines, and the node without children gives none.
C20_Witness ==
    /\ pc = "parsed"
    /\ root = 1
    /\ nodes[1].children = <<2, 3, 4>>
    /\ nodes[3].isNode
    /\ getAllLeaves(nodes, root) = <<2, 4>>
    /\ getAllLeaves(nodes, 2) = <<2>>
    /\ getAllLeaves(nodes, 3) = <<>>

(***************************************************************************)
(* Properties of the extraction of a module (SpecExtract).                 *)
(***************************************************************************)
ModuleDecls(T) == {m \in 1..Len(T) : T[m].isNode /\ T[m].tag = "kModuleDeclaration"}

\* The module declaration has no module-header subtree, or its header has no
\* identifier-tagged leaf with a text other than the module keyword.
Unnamed(T, m) ==
    LET headers == {g \in Subtree(T, m) : T[g].isNode /\ T[g].tag = "kModuleHeader"}
    IN  \/ headers = {}
        \/ \A l \in Subtree(T, CHOOSE g \in headers : \A h \in headers : g <= h) :
               ~(/\ ~T[l].isNode
                 /\ T[l].tag = "SymbolIdentifier"
                 /\ T[l].text # kw_module)

\* The module declaration the object stands in, innermost.
EnclosingModule(T, d) == Max({m \in ModuleDecls(T) : d \in Subtree(T, m)})

\* The variable declarators with an identifier leaf of the reg and logic
\* declarations whose innermost module declaration has no name.
UnnamedDeclarators(T) ==
    {d \in 1..Len(T) :
        /\ T[d].isNode
        /\ T[d].tag = "kRegisterVariable"
        /\ \E l \in SeqToSet(getAllLeaves(T, d)) : T[l].tag = "SymbolIdentifier"
        /\ \E dd \in 1..Len(T) :
               /\ T[dd].isNode
               /\ T[dd].tag = "kDataDeclaration"
               /\ d \in Subtree(T, dd)
               /\ FirstType(T, getAllLeaves(T, dd)) \in {kw_reg, kw_logic}
        /\ \E m \in ModuleDecls(T) : d \in Subtree(T, m)
        /\ Unnamed(T, EnclosingModule(T, d))}

\* The tree without the module declarations that have no name and no module
\* declaration with a name inside: they are no longer a child of any node.
WithoutUnnamed(T) ==
    LET absent == {u \in ModuleDecls(T) :
                      \A m \in ModuleDecls(T) \cap Subtree(T, u) : Unnamed(T, m)}
    IN  [k \in 1..Len(T) |->
            [T[k] EXCEPT !.children = SelectSeq(@, LAMBDA c : c \notin absent)]]

\* C21: in a file's result a module declaration without a name has no
\* summary (the summaries are those of the module declarations with a name,
\* in their order) and its declarators have no candidate, and the result is
\* the result for the same tree without the module declarations that have no
\* name.
C21_UnnamedModuleSkipped ==
    FileResultComplete =>
        /\ Len(fileModules) = Cardinality({m \in ModuleDecls(nodes) : ~Unnamed(nodes, m)})
        /\ \A m \in ModuleDecls(nodes) : Unnamed(nodes, m) <=> getModuleName(nodes, m) = <<>>
        /\ \A d \in UnnamedDeclarators(nodes) :
               CandidatesOf(nodes, d, fileRegisters, SourceContent(files[fi].src)) = {}
        /\ LET absent == ExtractFile(WithoutUnnamed(nodes), root, files[fi].path,
                                     files[fi].readable, SourceContent(files[fi].src))
           IN  /\ fileRegisters = absent.registers
               /\ fileModules = absent.modules

(***************************************************************************)
(* Properties of the declarations (SpecDecl).                              *)
(***************************************************************************)
\* The tree of the file has been read and is about to be searched.
TreeRead == pc = "lines" /\ li = Len(output) /\ root # NULL

TaggedNodes(T, tag) == {n \in 1..Len(T) : T[n].isNode /\ T[n].tag = tag}

LeavesBelow(T, n) == {l \in Subtree(T, n) : ~T[l].isNode}

\* The text of the first leaf, in document order, among wire, reg and logic;
\* wire when there is none.
StorageKind(T, decl) ==
    LET keywords == {l \in LeavesBelow(T, decl) : T[l].text \in {kw_wire, kw_reg, kw_logic}}
    IN  IF keywords = {} THEN kw_wire
        ELSE T[CHOOSE l \in keywords : \A k \in keywords : l <= k].text

\* The variable declarators of the declaration that have an identifier leaf,
\* in document order, and the first identifier leaf of one of them.
NamedDeclarators(T, decl) ==
    Sorted({d \in Subtree(T, decl) \cap TaggedNodes(T, "kRegisterVariable") :
               \E l \in LeavesBelow(T, d) : T[l].tag = "SymbolIdentifier"})

FirstIdentifier(T, d) ==
    CHOOSE l \in LeavesBelow(T, d) :
        /\ T[l].tag = "SymbolIdentifier"
        /\ \A k \in LeavesBelow(T, d) : T[k].tag = "SymbolIdentifier" => l <= k

\* The candidates are those of the declarators, one each and in their order,
\* named by the first identifier leaf, all of the one width.
OnePerDeclarator(T, decl, regs, width) ==
    /\ Len(regs) = Len(NamedDeclarators(T, decl))
    /\ \A i \in 1..Len(regs) :
           /\ regs[i].name = T[FirstIdentifier(T, NamedDeclarators(T, decl)[i])].text
           /\ regs[i].width = width
           /\ regs[i].type = "potential_register"

\* The names a reg or logic declaration of the source gives: those of its
\* declarators that are not escaped identifiers.
DeclaredNames(decl) ==
    IF decl.kind \in {kw_reg, kw_logic}
    THEN SelectSeq(decl.names, LAMBDA name : Head(name) # "\\")
    ELSE <<>>

\* C22: for every data-declaration subtree of a tree read, the kind is the
\* text of the first leaf among wire, reg and logic, and wire without one; a
\* declaration of kind wire gives no candidate; one of kind reg or logic gives
\* one candidate per variable declarator with an identifier leaf, named by
\* the first such leaf, all with the width the declaration resolves to, which
\* is 1 without packed dimensions; and the result returned for the file of
\* one declaration has the names of the declarators of the source.
C22_DataDeclarations ==
    /\ TreeRead =>
           \A decl \in TaggedNodes(nodes, "kDataDeclaration") :
               LET regs == parseDataDeclaration(nodes, decl, SourceContent(files[fi].src))
               IN  /\ FirstType(nodes, getAllLeaves(nodes, decl)) = StorageKind(nodes, decl)
                   /\ StorageKind(nodes, decl) = kw_wire => regs = <<>>
                   /\ StorageKind(nodes, decl) \in {kw_reg, kw_logic} =>
                          /\ OnePerDeclarator(nodes, decl, regs, DeclaredWidth(nodes, decl))
                          /\ (Subtree(nodes, decl) \cap TaggedNodes(nodes, "kPackedDimensions") = {})
                                 => DeclaredWidth(nodes, decl) = Num(1)
    /\ (Returned /\ Len(files) = 1 /\ files[1].path = "d.v") =>
           LET decl == files[1].src[1].decls[1]
           IN  /\ Len(result.registers) = Len(DeclaredNames(decl))
               /\ \A i \in 1..Len(result.registers) :
                      /\ result.registers[i].name = DeclaredNames(decl)[i]
                      /\ result.registers[i].width = result.registers[1].width
                      /\ decl.dim.shape = "none" => result.registers[i].width = Num(1)

\* C22: the tree of `logic [..] \e , s;` has been read: two declarators, one
\* of them without an identifier leaf, and one candidate.
C22_Witness ==
    /\ TreeRead
    /\ \E decl \in TaggedNodes(nodes, "kDataDeclaration") :
           /\ StorageKind(nodes, decl) = kw_logic
           /\ Cardinality(Subtree(nodes, decl) \cap TaggedNodes(nodes, "kRegisterVariable")) = 2
           /\ Len(parseDataDeclaration(nodes, decl, SourceContent(files[fi].src))) = 1
           /\ DeclaredWidth(nodes, decl) # Num(1)

\* The leaves of the port declaration with one of the texts.
LeavesWithText(T, port, texts) == {l \in LeavesBelow(T, port) : T[l].text \in texts}

\* The identifier-tagged leaves of the port declaration other than the
\* direction and type keywords, in document order.
PortIdentifiers(T, port) ==
    Sorted({l \in LeavesBelow(T, port) :
               /\ T[l].tag = "SymbolIdentifier"
               /\ T[l].text \notin {kw_input, kw_output, kw_inout, kw_wire, kw_reg, kw_logic}})

\* The candidates are the identifiers of the port declaration, one each and in
\* their order, all of the one width.
OnePerIdentifier(T, port, regs, width) ==
    /\ Len(regs) = Len(PortIdentifiers(T, port))
    /\ \A i \in 1..Len(regs) :
           /\ regs[i].name = T[PortIdentifiers(T, port)[i]].text
           /\ regs[i].width = width
           /\ regs[i].type = "potential_register"

\* The port declaration has an output leaf and a reg or logic leaf.
OutputRegister(T, port) ==
    /\ LeavesWithText(T, port, {kw_output}) # {}
    /\ LeavesWithText(T, port, {kw_reg, kw_logic}) # {}

\* C23: for every port-declaration subtree of a tree read, there are
\* candidates only if it has an output leaf and a reg or logic type; an input
\* or inout port, an output wire port and an output without type keyword
\* give none; and a port that qualifies gives one candidate per
\* identifier-tagged leaf other than the direction and type keywords, all
\* with the width a data declaration resolves to.
C23_PortDeclarations ==
    TreeRead =>
        \A port \in TaggedNodes(nodes, "kPortDeclaration") :
            LET regs == parsePortDeclaration(nodes, port, SourceContent(files[fi].src))
            IN  /\ regs # <<>> => OutputRegister(nodes, port)
                /\ LeavesWithText(nodes, port, {kw_output}) = {} => regs = <<>>
                /\ LeavesWithText(nodes, port, {kw_wire}) # {} => regs = <<>>
                /\ LeavesWithText(nodes, port, {kw_wire, kw_reg, kw_logic}) = {} => regs = <<>>
                /\ (OutputRegister(nodes, port) /\ LeavesWithText(nodes, port, {kw_wire}) = {})
                       => OnePerIdentifier(nodes, port, regs, DeclaredWidth(nodes, port))

(***************************************************************************)
(* Properties of the procedural-block classifier (SpecExtract).            *)
(***************************************************************************)
\* The subtree of the block has an event-expression node with a leaf of text
\* posedge or negedge below it.
EdgeTriggered(T, block) ==
    \E e \in Subtree(T, block) \cap TaggedNodes(T, "kEventExpression") :
        \E l \in LeavesBelow(T, e) : T[l].text \in {kw_posedge, kw_negedge}

\* The assignment-statement subtrees of the block.
AssignmentsOf(T, block) ==
    Subtree(T, block) \cap (TaggedNodes(T, "kNetVariableAssignment")
                               \cup TaggedNodes(T, "kBlockingAssignmentStatement")
                               \cup TaggedNodes(T, "kNonblockingAssignmentStatement"))

\* The identifier-tagged leaves under the left-hand-side subtree of the
\* assignment, the first left-hand-side subtree when it has several.
TargetLeaves(T, assignment) ==
    LET sides == Subtree(T, assignment) \cap TaggedNodes(T, "kLPValue")
    IN  IF sides = {} THEN {}
        ELSE {l \in LeavesBelow(T, CHOOSE g \in sides : \A h \in sides : g <= h) :
                 T[l].tag = "SymbolIdentifier"}

\* The names the assignments of the block assign: the text of the first
\* identifier leaf of each left-hand side that has one.
AssignedNames(T, block) ==
    {T[CHOOSE l \in TargetLeaves(T, a) : \A k \in TargetLeaves(T, a) : l <= k].text :
        a \in {a \in AssignmentsOf(T, block) : TargetLeaves(T, a) # {}}}

\* The blocks among the first k of the module's blocks that are, or are not,
\* edge-triggered.
BlocksScanned(k, edge) ==
    {blockNodes[i] : i \in {i \in 1..k : EdgeTriggered(nodes, blockNodes[i]) = edge}}

BlockScanned == pc = "blocks" /\ bi' = bi + 1

\* C24: a block is taken for edge-triggered exactly when its subtree has an
\* event-expression node with a posedge or negedge leaf below it; the step on
\* an edge-triggered block adds the names it assigns to clockedSignals and
\* leaves latchSignals as it was, the step on any other block adds them to
\* latchSignals and leaves clockedSignals as it was; and at every point of
\* the loop each set is the union of the names assigned in the blocks of its
\* kind taken so far, over all blocks of the module at its end.
C24_BlockClassification ==
    /\ [][BlockScanned =>
              /\ hasClockEdge(nodes, blockNodes[bi]) = EdgeTriggered(nodes, blockNodes[bi])
              /\ EdgeTriggered(nodes, blockNodes[bi]) =>
                     /\ clockedSignals' = clockedSignals \cup AssignedNames(nodes, blockNodes[bi])
                     /\ latchSignals' = latchSignals
              /\ ~EdgeTriggered(nodes, blockNodes[bi]) =>
                     /\ latchSignals' = latchSignals \cup AssignedNames(nodes, blockNodes[bi])
                     /\ clockedSignals' = clockedSignals]_vars
    /\ [](pc = "blocks" =>
              /\ clockedSignals =
                     UNION {AssignedNames(nodes, b) : b \in BlocksScanned(bi - 1, TRUE)}
              /\ latchSignals =
                     UNION {AssignedNames(nodes, b) : b \in BlocksScanned(bi - 1, FALSE)})

\* C24: the blocks of a module have all been taken: an edge-triggered block,
\* and a block with an event expression without edge; each set has a name the
\* other has not.
C24_Witness ==
    /\ pc = "blocks"
    /\ bi > Len(blockNodes)
    /\ Len(blockNodes) = 2
    /\ EdgeTriggered(nodes, blockNodes[1])
    /\ ~EdgeTriggered(nodes, blockNodes[2])
    /\ Subtree(nodes, blockNodes[2]) \cap TaggedNodes(nodes, "kEventExpression") # {}
    /\ clockedSignals \ latchSignals # {}
    /\ latchSignals \ clockedSignals # {}

\* The assignments of the block that name a target.
NamingAssignments(T, block) == {a \in AssignmentsOf(T, block) : TargetLeaves(T, a) # {}}

\* The second loop of refineRegisters has written every type.
TypesWritten == pc = "blocks" /\ bi > Len(blockNodes) /\ ri > Len(potentialRegisters)

\* C25: for every block of a module, findAssignedSignals gives one name for
\* each assignment whose left-hand-side subtree has an identifier-tagged leaf,
\* the text of the first such leaf, and none for an assignment without
\* left-hand-side subtree or without identifier leaf in it; such an assignment
\* adds nothing to either set, the extraction of the module goes on to its
\* end, and a candidate that no assignment names is classified flip_flop.
C25_AssignmentTargets ==
    /\ pc = "blocks" =>
           \A i \in 1..Len(blockNodes) :
               /\ Len(findAssignedSignals(nodes, blockNodes[i]))
                      = Cardinality(NamingAssignments(nodes, blockNodes[i]))
               /\ SeqToSet(findAssignedSignals(nodes, blockNodes[i]))
                      = AssignedNames(nodes, blockNodes[i])
    /\ (pc = "blocks" /\ bi > Len(blockNodes)) =>
           clockedSignals \cup latchSignals
               = UNION {AssignedNames(nodes, blockNodes[i]) : i \in 1..Len(blockNodes)}
    /\ TypesWritten =>
           \A i \in 1..Len(potentialRegisters) :
               potentialRegisters[i].name \notin clockedSignals \cup latchSignals
                   => potentialRegisters[i].type = "flip_flop"
    /\ (Returned /\ \E i \in 1..Len(files) : files[i].path = "lhs.v") =>
           \E i \in 1..Len(result.registers) :
               /\ result.registers[i].file = "lhs.v"
               /\ result.registers[i].name = SigR
               /\ result.registers[i].type = "flip_flop"

\* C25: the types of a module have been written whose first block has an
\* assignment without left-hand side, one whose left-hand side has no
\* identifier leaf and one that names s; s is a latch and r, which no
\* assignment names, a flip_flop.
C25_Witness ==
    /\ TypesWritten
    /\ Len(blockNodes) = 2
    /\ Cardinality(AssignmentsOf(nodes, blockNodes[1])) = 3
    /\ Cardinality(NamingAssignments(nodes, blockNodes[1])) = 1
    /\ \E a \in AssignmentsOf(nodes, blockNodes[1]) :
           Subtree(nodes, a) \cap TaggedNodes(nodes, "kLPValue") = {}
    /\ \E a \in AssignmentsOf(nodes, blockNodes[1]) :
           /\ Subtree(nodes, a) \cap TaggedNodes(nodes, "kLPValue") # {}
           /\ TargetLeaves(nodes, a) = {}
    /\ NamingAssignments(nodes, blockNodes[2]) = {}
    /\ clockedSignals = {}
    /\ latchSignals = {SigS}
    /\ \E i \in 1..Len(potentialRegisters) :
           potentialRegisters[i].name = SigR /\ potentialRegisters[i].type = "flip_flop"

\* The first loop of refineRegisters has taken every block of the module.
BlocksDone == pc = "blocks" /\ bi > Len(blockNodes)

\* The names assigned in a block of the one kind and in a block of the other.
AssignedInBothKinds ==
    UNION {AssignedNames(nodes, b) : b \in BlocksScanned(Len(blockNodes), TRUE)}
        \cap UNION {AssignedNames(nodes, b) : b \in BlocksScanned(Len(blockNodes), FALSE)}

\* C26 as stated: after all blocks of a module have been processed no name is
\* in both clockedSignals and latchSignals.
C26_SetsDisjointAsStated == BlocksDone => clockedSignals \cap latchSignals = {}

\* C26: after all blocks of a module have been processed the names in both
\* clockedSignals and latchSignals are the names assigned both in an
\* edge-triggered and in a level-sensitive block, so the sets are disjoint
\* exactly when there is no such name; and a candidate whose name is in both
\* sets is classified flip_flop.
C26_SetsDisjoint ==
    /\ BlocksDone => clockedSignals \cap latchSignals = AssignedInBothKinds
    /\ TypesWritten =>
           \A i \in 1..Len(potentialRegisters) :
               potentialRegisters[i].name \in clockedSignals \cap latchSignals
                   => potentialRegisters[i].type = "flip_flop"

\* C26: the types of a module have been written in which r is assigned in an
\* edge-triggered block and in a level-sensitive one and s in one block only.
C26_Witness ==
    /\ TypesWritten
    /\ clockedSignals \cap latchSignals = {SigR}
    /\ SigS \in (clockedSignals \cup latchSignals) \ (clockedSignals \cap latchSignals)
    /\ \E i \in 1..Len(potentialRegisters) :
           potentialRegisters[i].name = SigR /\ potentialRegisters[i].type = "flip_flop"

(***************************************************************************)
(* Properties of the stack and the root of parseTreeStructure (SpecParse). *)
(***************************************************************************)
\* The stack is a path of the tree: from the root down, each entry an
\* interior node and a child of the entry below it.
StackIsPath ==
    /\ stack # <<>> => stack[1] = root
    /\ \A i \in 1..Len(stack) : nodes[stack[i]].isNode
    /\ \A i \in 2..Len(stack) : stack[i] \in SeqToSet(nodes[stack[i - 1]].children)

NodeTaken == LineTaken /\ nodeMatch(TakenLine)

\* C27: while the lines are processed the stack is a path of the tree under
\* construction: when it is not empty its bottom entry is the current root,
\* and every entry is a child of the entry below it; and after a node line at
\* level L the stack has at most L + 1 entries and the node just created on
\* top.
C27_StackIsPath ==
    /\ [](StackIsPath)
    /\ [][NodeTaken => /\ 2 * Len(stack') <= TakenLine.ws + 2
                       /\ Last(stack') = NewRef
                       /\ nodes'[NewRef] = SyntaxNode(TakenLine.tag)]_vars

\* C27: four node lines have been taken, the last after a pop: the stack is
\* the root and its second child.
C27_Witness ==
    /\ li = 4
    /\ \A i \in 1..4 : nodeMatch(output[i])
    /\ output[3].ws = 4
    /\ output[4].ws = 2
    /\ nodes[1].children = <<2, 4>>
    /\ nodes[2].children = <<3>>
    /\ stack = <<1, 4>>
    /\ root = 1

\* The matched lines that are node lines and found the stack empty once it
\* was popped down to their level.
RootLines ==
    {k \in 1..Len(Recognised) :
        /\ nodeMatch(Recognised[k])
        /\ PopWhile(ParseAll(Recognised, k - 1).stack, Recognised[k].ws) = <<>>}

\* C28: the root is the node of the last node line processed with an empty
\* stack, null when there is none; a step changes it only on such a line;
\* and nothing attached under an earlier root, that root included, is
\* reachable from the root returned.
C28_LastRootReturned ==
    /\ [](root = (IF RootLines = {} THEN NULL ELSE Max(RootLines)))
    /\ [][LineTaken =>
              root' = (IF nodeMatch(TakenLine) /\ PopWhile(stack, TakenLine.ws) = <<>>
                       THEN NewRef ELSE root)]_vars
    /\ [](pc = "parsed" =>
              /\ \A k \in RootLines : k # root => Subtree(nodes, k) \cap InTree = {}
              /\ \A k \in InTree : k >= root)

\* C28: the output had two node lines at level 0, the first with a leaf below
\* it; the node of the second is returned and the first node and its leaf are
\* not reachable from it.
C28_Witness ==
    /\ pc = "parsed"
    /\ Cardinality(RootLines) = 2
    /\ root = 3
    /\ Recognised[3].ws = 0
    /\ nodes[1].children = <<2>>
    /\ ~nodes[2].isNode
    /\ InTree = {3, 4}

\* C28: a leaf line at level 0 emptied the stack and the indented node line
\* after it became the root.
C28_WitnessLeaf ==
    /\ pc = "parsed"
    /\ Len(Recognised) = 3
    /\ leafMatch(Recognised[2]) /\ Recognised[2].ws = 0
    /\ Recognised[3].ws = 2
    /\ root = 3

(***************************************************************************)
(* Properties of the counts of a returned result (SpecExtract).            *)
(***************************************************************************)
RECURSIVE SumRegisterCounts(_)
SumRegisterCounts(mods) ==
    IF mods = <<>> THEN 0 ELSE SumRegisterCounts(Front(mods)) + Last(mods).registerCount

SummariesNamed(mods, name) == SelectSeq(mods, LAMBDA m : m.name = name)

\* The length of byModule[name]; a name without register has no key.
GroupLength(byModule, name) == IF name \in DOMAIN byModule THEN Len(byModule[name]) ELSE 0

\* C29: in every result returned the registerCounts of all module summaries
\* add up to totalRegisters, and for every module name, of a summary or of a
\* key of byModule, the length of byModule[name] is the sum of the
\* registerCounts of the summaries with that name, whatever their files; the
\* name is a key of byModule exactly when that sum is not 0.
C29_CountsAgree ==
    Returned =>
        /\ SumRegisterCounts(result.modules) = result.totalRegisters
        /\ \A name \in {result.modules[k].name : k \in 1..Len(result.modules)}
                           \cup DOMAIN result.byModule :
               /\ GroupLength(result.byModule, name)
                      = SumRegisterCounts(SummariesNamed(result.modules, name))
               /\ name \in DOMAIN result.byModule
                      <=> SumRegisterCounts(SummariesNamed(result.modules, name)) # 0

\* C29: a result has been returned for two files that both declare a module
\* m with registers, one of them a second module m as well, and a module of
\* another name is among the summaries.
C29_Witness ==
    /\ Returned
    /\ Len(files) = 2
    /\ Len(SummariesNamed(result.modules, NameM)) = 3
    /\ \A k \in 1..3 : SummariesNamed(result.modules, NameM)[k].registerCount > 0
    /\ \E k \in 1..Len(result.modules) : result.modules[k].name # NameM
    /\ Len(result.byModule[NameM]) = 4
    /\ result.totalRegisters > 4

(***************************************************************************)
(* Properties of CacheManager (SpecCache).                                 *)
(***************************************************************************)
\* The get in flight returns in this step.
GetReturns == getCall.pc # "return" /\ getCall'.pc = "return"

\* The hashes the returning get read for the entry's own file and for its
\* dependencies are the ones read when the entry was set.
HashesAsAtSet(frame) ==
    /\ frame.seenFile # NoHash => frame.seenFile = frame.entry.fileHash
    /\ \A k \in 1 .. Len(frame.entry.dependencies) :
           LET dep == frame.entry.dependencies[k]
           IN  frame.seenDeps[dep] = frame.entry.hashesAtSet[dep]

\* The get found an entry under its key and one of the hashes it read is
\* not the one read when the entry was set.
ChangedHashSeen(frame) ==
    /\ frame.entry # NoEntry
    /\ \/ frame.seenFile # NoHash /\ frame.seenFile # frame.entry.fileHash
       \/ \E dep \in DepFiles :
              /\ frame.seenDeps[dep] # NoHash
              /\ frame.seenDeps[dep] # frame.entry.hashesAtSet[dep]

\* C30: in any interleaving of set, get and modifications of the files, a
\* get that returns the data of an entry has read, for the entry's own file
\* and for each of its dependencies, the hash the file had when that entry
\* was set, also when another entry with the same dependency was set in
\* between; a get that reads a changed hash returns null and the key is
\* absent from the cache when it returns.
C30_NoStaleData ==
    [][GetReturns =>
           /\ getCall'.result = "data" => HashesAsAtSet(getCall')
           /\ ChangedHashSeen(getCall') =>
                  getCall'.result = "null" /\ getCall'.key \notin DOMAIN cache']_vars

====
